---- MODULE Spec2Model ----
(***************************************************************************)
(* State-machine model of the XTTS-V2 speech service                       *)
(* (tts-backend/app/services/tts_service.py) and of the application        *)
(* shutdown hook (tts-backend/app/main.py).                                *)
(*                                                                         *)
(* Python values are encoded with uniform types:                           *)
(*   - a string that the code inspects character by character (text,      *)
(*     language) is a sequence of one-character strings;                   *)
(*   - an optional value is a sequence of length 0 (None) or 1 (the value) *)
(*   - a path on disk is the record of what the code can observe of it.    *)
(***************************************************************************)
EXTENDS Integers, Sequences, FiniteSets, TLC

VARIABLES
    _instance,      \* XTTS2Service._instance: 0 (None) or the id of the object
    allocs,         \* number of objects built by super().__new__
    attrs,          \* names of the attributes set on the instance
    settings,       \* self.settings
    tts,            \* self.tts: "None" or "loaded"
    is_initialized, \* self.is_initialized
    loadCount,      \* number of TTS(...) constructions attempted
    poolCount,      \* number of ThreadPoolExecutor constructions
    executor,       \* self.executor: [shutdown, queue, workers]
    jobs,           \* every submitted work item with its Future, by job id
    disk,           \* generated-output files: path -> size in bytes
    voiceFiles,     \* speakers whose reference file exists on disk
    pcDel,          \* position of __del__: "idle", "waiting", "done"
    delPending,     \* jobs unfinished when __del__ shut the pool down
    cacheCleared,   \* torch.cuda.empty_cache() has run
    routerBound,    \* the router module still holds the name tts_service
    shutdownEvent,  \* the application shutdown event has run
    lastCall,       \* the most recent API call and its outcome
    ctor,           \* per thread: where it is inside XTTS2Service(), and its self
    probe           \* one application of a function: [fn, arg, out]

vars == <<_instance, allocs, attrs, settings, tts, is_initialized, loadCount,
          poolCount, executor, jobs, disk, voiceFiles, pcDel, delPending,
          cacheCleared, routerBound, shutdownEvent, lastCall, ctor, probe>>

(***************************************************************************)
(* Bounds of the model                                                     *)
(***************************************************************************)
\* number of jobs submitted in one behaviour
MaxJobs == 2
\* number of distinct random file-name tokens (uuid4 prefix) drawn
MaxTokens == 1
\* number of threads that call XTTS2Service() concurrently
MaxThreads == 2

(***************************************************************************)
(* Program constants                                                       *)
(***************************************************************************)
DefaultMaxWorkers == 4
DefaultMaxTextLength == 1000
MinRefBytes == 10240
MaxRefBytes == 10485760
MinAudioBytes == 100

\* Optional values
NoneV == << >>
Some(v) == <<v>>
IsNone(x) == x = << >>

(***************************************************************************)
(* Strings                                                                 *)
(***************************************************************************)
UpperChars == <<"A","B","C","D","E","F","G","H","I","J","K","L","M",
                "N","O","P","Q","R","S","T","U","V","W","X","Y","Z">>
LowerChars == <<"a","b","c","d","e","f","g","h","i","j","k","l","m",
                "n","o","p","q","r","s","t","u","v","w","x","y","z">>
Whitespace == {" ", "\t", "\n"}

\* str.lower() on one character
LowerChar(c) ==
    IF \E i \in 1..26 : UpperChars[i] = c
    THEN LowerChars[CHOOSE i \in 1..26 : UpperChars[i] = c]
    ELSE c

\* str.lower()
Lower(s) == [i \in 1..Len(s) |-> LowerChar(s[i])]

RECURSIVE LStrip(_)
LStrip(s) == IF s # << >> /\ Head(s) \in Whitespace THEN LStrip(Tail(s)) ELSE s

RECURSIVE RStrip(_)
RStrip(s) ==
    IF s # << >> /\ s[Len(s)] \in Whitespace
    THEN RStrip(SubSeq(s, 1, Len(s) - 1))
    ELSE s

\* str.strip()
Strip(s) == RStrip(LStrip(s))

(***************************************************************************)
(* Outcome of a call: a returned value or a raised exception               *)
(***************************************************************************)
\* normal return of value v
Return(v) == [exc |-> "", cause |-> "", msg |-> {}, val |-> Some(v)]
\* exception of type e; cause identifies the raise statement, msg the names
\* the message enumerates
Raise(e, c, m) == [exc |-> e, cause |-> c, msg |-> m, val |-> NoneV]
Raised(r) == r.exc # ""

(***************************************************************************)
(* validate_xtts_language                                                  *)
(***************************************************************************)
\* the dict supported_langs: <<key, canonical code>>
supported_langs ==
    { << <<"e","n">>, "en" >>, << <<"e","n","g","l","i","s","h">>, "en" >>,
      << <<"z","h">>, "zh-cn" >>, << <<"c","h","i","n","e","s","e">>, "zh-cn" >>,
      << <<"z","h","-","c","n">>, "zh-cn" >>,
      << <<"e","s">>, "es" >>, << <<"s","p","a","n","i","s","h">>, "es" >>,
      << <<"f","r">>, "fr" >>, << <<"f","r","e","n","c","h">>, "fr" >>,
      << <<"d","e">>, "de" >>, << <<"g","e","r","m","a","n">>, "de" >>,
      << <<"i","t">>, "it" >>, << <<"i","t","a","l","i","a","n">>, "it" >>,
      << <<"p","t">>, "pt" >>,
      << <<"p","o","r","t","u","g","u","e","s","e">>, "pt" >>,
      << <<"r","u">>, "ru" >>, << <<"r","u","s","s","i","a","n">>, "ru" >>,
      << <<"t","r">>, "tr" >>, << <<"t","u","r","k","i","s","h">>, "tr" >>,
      << <<"j","a">>, "ja" >>, << <<"j","a","p","a","n","e","s","e">>, "ja" >> }

\* set(supported_langs.values())
SupportedValues == { kv[2] : kv \in supported_langs }

\* (faulty variant) the lookup without case folding
ValidateLanguageCaseSensitive(language) ==
    IF IsNone(language)
    THEN Raise("AttributeError", "language_none", {})
    ELSE LET l == Strip(language[1])
         IN IF ~ \E kv \in supported_langs : kv[1] = l
            THEN Raise("XTTSLanguageError", "language_unsupported", SupportedValues)
            ELSE Return((CHOOSE kv \in supported_langs : kv[1] = l)[2])

\* language: optional string
validate_xtts_language(language) ==
    IF IsNone(language)
    THEN Raise("AttributeError", "language_none", {})
    ELSE LET l == Lower(Strip(language[1]))
         IN IF ~ \E kv \in supported_langs : kv[1] = l
            THEN Raise("XTTSLanguageError", "language_unsupported", SupportedValues)
            ELSE Return((CHOOSE kv \in supported_langs : kv[1] = l)[2])

(***************************************************************************)
(* XTTS2Service._validate_text                                             *)
(***************************************************************************)
\* (faulty variant) the text check without its length limit
ValidateTextNoLimit(text, max_len) ==
    LET t == IF IsNone(text) \/ text[1] = << >> THEN << >> ELSE Strip(text[1])
    IN IF t = << >>
       THEN Raise("ValueError", "text_empty", {})
       ELSE Return(t)

\* (faulty variant) a limit that rejects a text of exactly max_len characters
ValidateTextBelowLimit(text, max_len) ==
    LET t == IF IsNone(text) \/ text[1] = << >> THEN << >> ELSE Strip(text[1])
    IN IF t = << >>
       THEN Raise("ValueError", "text_empty", {})
       ELSE IF Len(t) >= max_len
            THEN Raise("ValueError", "text_too_long", {})
            ELSE Return(t)

\* text: optional string; max_len: settings["TTS_MAX_TEXT_LENGTH"]
_validate_text(text, max_len) ==
    LET t == IF IsNone(text) \/ text[1] = << >> THEN << >> ELSE Strip(text[1])
    IN IF t = << >>
       THEN Raise("ValueError", "text_empty", {})
       ELSE IF Len(t) > max_len
            THEN Raise("ValueError", "text_too_long", {})
            ELSE Return(t)

(***************************************************************************)
(* XTTS2Service._validate_reference_wav                                    *)
(* A path is [name, ext, exists, size, probe]: ext is the suffix as        *)
(* written, size the byte size on disk, probe the outcome of the duration  *)
(* probe ("short", "ok", "long", "fail", "no_torchaudio").                 *)
(***************************************************************************)
AdmissibleExt == { <<".","w","a","v">>, <<".","m","p","3">> }

\* (faulty variant) a check without the two size tests
ValidateReferenceWavNoSize(wav_path, required) ==
    IF ~required /\ IsNone(wav_path)
    THEN Return([name |-> "", ext |-> << >>, exists |-> FALSE, size |-> 0,
                 probe |-> "fail"])
    ELSE IF IsNone(wav_path)
    THEN Raise("TypeError", "wav_none", {})
    ELSE LET p == wav_path[1]
         IN IF ~p.exists
            THEN Raise("FileNotFoundError", "wav_missing", {})
            ELSE IF Lower(p.ext) \notin AdmissibleExt
            THEN Raise("ValueError", "wav_format", {})
            ELSE Return(p)

\* (faulty variant) a check that also rejects a duration outside 3-10 s
ValidateReferenceWavDuration(wav_path, required) ==
    IF ~required /\ IsNone(wav_path)
    THEN Return([name |-> "", ext |-> << >>, exists |-> FALSE, size |-> 0,
                 probe |-> "fail"])
    ELSE IF IsNone(wav_path)
    THEN Raise("TypeError", "wav_none", {})
    ELSE LET p == wav_path[1]
         IN IF ~p.exists
            THEN Raise("FileNotFoundError", "wav_missing", {})
            ELSE IF Lower(p.ext) \notin AdmissibleExt
            THEN Raise("ValueError", "wav_format", {})
            ELSE IF p.size < MinRefBytes
            THEN Raise("ValueError", "wav_too_small", {})
            ELSE IF p.size > MaxRefBytes
            THEN Raise("ValueError", "wav_too_large", {})
            ELSE IF p.probe \in {"short", "long"}
            THEN Raise("ValueError", "wav_duration", {})
            ELSE Return(p)

\* wav_path: optional path; required: BOOLEAN
_validate_reference_wav(wav_path, required) ==
    IF ~required /\ IsNone(wav_path)
    THEN Return([name |-> "", ext |-> << >>, exists |-> FALSE, size |-> 0,
                 probe |-> "fail"])
    ELSE IF IsNone(wav_path)
    THEN Raise("TypeError", "wav_none", {})
    ELSE LET p == wav_path[1]
         IN IF ~p.exists
            THEN Raise("FileNotFoundError", "wav_missing", {})
            ELSE IF Lower(p.ext) \notin AdmissibleExt
            THEN Raise("ValueError", "wav_format", {})
            ELSE IF p.size < MinRefBytes
            THEN Raise("ValueError", "wav_too_small", {})
            ELSE IF p.size > MaxRefBytes
            THEN Raise("ValueError", "wav_too_large", {})
            ELSE Return(p)

(***************************************************************************)
(* XTTS2Service._validate_audio                                            *)
(***************************************************************************)
\* (faulty variant) the output check without its size test
ValidateAudioExistsOnly(size) ==
    IF size < 0
    THEN Raise("RuntimeError", "audio_missing", {})
    ELSE Return(TRUE)

\* size: byte size of the file at audio_path, -1 when it does not exist
_validate_audio(size) ==
    IF size < 0
    THEN Raise("RuntimeError", "audio_missing", {})
    ELSE IF size < MinAudioBytes
         THEN Raise("RuntimeError", "audio_too_small", {})
         ELSE Return(TRUE)

(***************************************************************************)
(* Inputs                                                                  *)
(***************************************************************************)
\* the keys of speaker_voice_map
Speakers == {"zh_cn_0", "en_us_0", "es_0", "fr_0", "de_0", "pt_0", "tr_0", "ja_0"}

\* the `settings` argument: the keys the model reads, NoneV when the key is
\* missing or holds None (or the argument is no dict)
NoSettings == [TTS_MAX_WORKERS |-> NoneV, TTS_MAX_TEXT_LENGTH |-> NoneV,
               USE_GPU |-> NoneV]
UserSettings ==
    { NoSettings,
      [TTS_MAX_WORKERS |-> Some(1), TTS_MAX_TEXT_LENGTH |-> Some(1),
       USE_GPU |-> Some(FALSE)],
      [TTS_MAX_WORKERS |-> Some(0), TTS_MAX_TEXT_LENGTH |-> NoneV, USE_GPU |-> NoneV] }

\* what the environment does during one construction: the step that raises
\* ("none", "settings", "logger", "engine"); torch reports a device
InitEnvs == [fail : {"none", "settings", "logger", "engine"}, gpu : {TRUE}]

(***************************************************************************)
(* XTTS2Service.__new__ / __init__                                         *)
(***************************************************************************)
\* the fields of the instance
Self == [attrs |-> attrs, settings |-> settings, tts |-> tts,
         is_initialized |-> is_initialized, executor |-> executor,
         loadCount |-> loadCount, poolCount |-> poolCount]

NoExecutor == [shutdown |-> FALSE, queue |-> << >>, workers |-> << >>]

_init_default_settings(user_settings, gpu) ==
    [TTS_MAX_WORKERS |->
        IF ~IsNone(user_settings.TTS_MAX_WORKERS)
        THEN user_settings.TTS_MAX_WORKERS[1] ELSE DefaultMaxWorkers,
     TTS_MAX_TEXT_LENGTH |->
        IF ~IsNone(user_settings.TTS_MAX_TEXT_LENGTH)
        THEN user_settings.TTS_MAX_TEXT_LENGTH[1] ELSE DefaultMaxTextLength,
     USE_GPU |->
        IF ~IsNone(user_settings.USE_GPU) THEN user_settings.USE_GPU[1] ELSE gpu]

\* (faulty variant) a pool with one worker more than asked for
InitThreadPoolExtra(n) ==
    [shutdown |-> FALSE, queue |-> << >>, workers |-> [w \in 1..(n + 1) |-> 0]]

\* ThreadPoolExecutor(max_workers=n): every worker idle, nothing queued
_init_thread_pool(n) ==
    [shutdown |-> FALSE, queue |-> << >>, workers |-> [w \in 1..n |-> 0]]

\* (faulty variant) the check stops at the first missing file
OnlyFirstMissingVoice ==
    IF Speakers \ voiceFiles = {} THEN {}
    ELSE {CHOOSE sp \in Speakers \ voiceFiles : TRUE}

\* the speakers whose reference file does not exist
_validate_speaker_voices == Speakers \ voiceFiles

\* (faulty variant) __init__ without its guard
NeverAlreadyInitialized(self) == FALSE

\* (faulty variant) a guard that holds only once the flag is true
AlreadyInitializedAndReady(self) == "is_initialized" \in self.attrs /\ self.is_initialized

\* hasattr(self, "is_initialized"): the guard against a second initialization
AlreadyInitialized(self) == "is_initialized" \in self.attrs

\* (faulty variant) an __init__ that sets is_initialized before the engine load
InitFlagBeforeLoad(self, user_settings, env) ==
    IF AlreadyInitialized(self)
    THEN [self |-> self, out |-> Return("None")]
    ELSE IF env.fail = "settings"
    THEN [self |-> self, out |-> Raise("OSError", "settings", {})]
    ELSE
    LET s1 == [self EXCEPT
                 !.settings = Some(_init_default_settings(user_settings, env.gpu)),
                 !.tts = "None",
                 !.is_initialized = TRUE,
                 !.attrs = self.attrs \cup {"settings", "tts", "is_initialized",
                              "supported_languages", "speaker_voice_map"}]
        n  == s1.settings[1].TTS_MAX_WORKERS
    IN
    IF env.fail = "logger"
    THEN [self |-> s1, out |-> Raise("OSError", "logger", {})]
    ELSE
    LET s2 == [s1 EXCEPT !.attrs = s1.attrs \cup {"logger"}] IN
    IF n <= 0
    THEN [self |-> s2, out |-> Raise("TTSInitializationError", "pool", {})]
    ELSE
    LET s3 == [s2 EXCEPT !.attrs = s2.attrs \cup {"executor"},
                         !.executor = _init_thread_pool(n),
                         !.poolCount = s2.poolCount + 1,
                         !.loadCount = s2.loadCount + 1]
    IN
    IF env.fail = "engine"
    THEN [self |-> s3, out |-> Raise("TTSInitializationError", "engine", {})]
    ELSE
    LET s4 == [s3 EXCEPT !.tts = "loaded", !.is_initialized = TRUE] IN
    IF _validate_speaker_voices # {}
    THEN [self |-> s4,
          out |-> Raise("TTSInitializationError", "speaker_voices",
                        _validate_speaker_voices)]
    ELSE [self |-> s4, out |-> Return("None")]

\* __init__ on the instance `self`: the fields afterwards and the outcome
__init__(self, user_settings, env) ==
    IF AlreadyInitialized(self)
    THEN [self |-> self, out |-> Return("None")]
    ELSE IF env.fail = "settings"
    THEN [self |-> self, out |-> Raise("OSError", "settings", {})]
    ELSE
    LET s1 == [self EXCEPT
                 !.settings = Some(_init_default_settings(user_settings, env.gpu)),
                 !.tts = "None",
                 !.is_initialized = FALSE,
                 !.attrs = self.attrs \cup {"settings", "tts", "is_initialized",
                              "supported_languages", "speaker_voice_map"}]
        n  == s1.settings[1].TTS_MAX_WORKERS
    IN
    IF env.fail = "logger"
    THEN [self |-> s1, out |-> Raise("OSError", "logger", {})]
    ELSE
    LET s2 == [s1 EXCEPT !.attrs = s1.attrs \cup {"logger"}] IN
    IF n <= 0
    THEN [self |-> s2, out |-> Raise("TTSInitializationError", "pool", {})]
    ELSE
    LET s3 == [s2 EXCEPT !.attrs = s2.attrs \cup {"executor"},
                         !.executor = _init_thread_pool(n),
                         !.poolCount = s2.poolCount + 1,
                         !.loadCount = s2.loadCount + 1]
    IN
    IF env.fail = "engine"
    THEN [self |-> s3, out |-> Raise("TTSInitializationError", "engine", {})]
    ELSE
    LET s4 == [s3 EXCEPT !.tts = "loaded", !.is_initialized = TRUE] IN
    IF _validate_speaker_voices # {}
    THEN [self |-> s4,
          out |-> Raise("TTSInitializationError", "speaker_voices",
                        _validate_speaker_voices)]
    ELSE [self |-> s4, out |-> Return("None")]

\* the threads that construct the service, and a thread outside XTTS2Service()
Threads == 1..MaxThreads
NoThread == [pc |-> "idle", self |-> 0]

\* cls._instance after __new__: a new object only when there is none
__new__(inst, n) == IF inst = 0 THEN n + 1 ELSE inst

\* the record of one call: operation, outcome, value returned (an instance
\* id or a job id, 0 when the call raised)
Call(op, out, ret) ==
    [op |-> op, exc |-> out.exc, cause |-> out.cause, msg |-> out.msg, ret |-> ret]

SetSelf(s) ==
    /\ attrs' = s.attrs
    /\ settings' = s.settings
    /\ tts' = s.tts
    /\ is_initialized' = s.is_initialized
    /\ executor' = s.executor
    /\ loadCount' = s.loadCount
    /\ poolCount' = s.poolCount

\* XTTS2Service(settings=user_settings)
Construct(user_settings, env) ==
    LET inst == __new__(_instance, allocs)
        r    == __init__(Self, user_settings, env)
    IN /\ _instance' = inst
       /\ allocs' = IF inst = _instance THEN allocs ELSE allocs + 1
       /\ SetSelf(r.self)
       /\ lastCall' = Call("XTTS2Service", r.out, IF Raised(r.out) THEN 0 ELSE inst)
       /\ UNCHANGED <<jobs, disk, voiceFiles, ctor, probe, pcDel, delPending, cacheCleared,
                      routerBound, shutdownEvent>>

\* create_xtts2_service(settings): constructs only when there is no instance;
\* the module binds the value returned to the name tts_service
create_xtts2_service(user_settings, env) ==
    LET fresh == _instance = 0
        inst  == IF fresh THEN __new__(_instance, allocs) ELSE _instance
        r     == IF fresh THEN __init__(Self, user_settings, env)
                 ELSE [self |-> Self, out |-> Return("None")]
    IN /\ _instance' = inst
       /\ allocs' = IF inst = _instance THEN allocs ELSE allocs + 1
       /\ SetSelf(r.self)
       /\ routerBound' = (routerBound \/ ~Raised(r.out))
       /\ lastCall' = Call("create_xtts2_service", r.out, IF Raised(r.out) THEN 0 ELSE inst)
       /\ UNCHANGED <<jobs, disk, voiceFiles, ctor, probe, pcDel, delPending, cacheCleared,
                      shutdownEvent>>

(***************************************************************************)
(* XTTS2Service() step by step, as a thread runs it next to other threads  *)
(* (no lock in __new__ or __init__; every I/O step succeeds).  The field   *)
(* variables describe the object that _instance refers to.                 *)
(***************************************************************************)
\* assignments to the fields of object `obj`
Assign(obj, s) ==
    IF obj = _instance
    THEN /\ attrs' = s.attrs /\ settings' = s.settings /\ tts' = s.tts
         /\ is_initialized' = s.is_initialized /\ executor' = s.executor
    ELSE UNCHANGED <<attrs, settings, tts, is_initialized, executor>>

RaceFrame == UNCHANGED <<jobs, disk, voiceFiles, pcDel, delPending, cacheCleared,
                         routerBound, shutdownEvent, lastCall, probe>>

\* __new__: the test `cls._instance is None`
NewTest(t) ==
    /\ ctor[t].pc = "idle"
    /\ ctor' = [ctor EXCEPT ![t].pc = IF _instance = 0 THEN "alloc" ELSE "return"]
    /\ UNCHANGED <<_instance, allocs, attrs, settings, tts, is_initialized,
                   executor, loadCount, poolCount>>
    /\ RaceFrame

\* __new__: cls._instance = super().__new__(cls), a fresh object
NewAlloc(t) ==
    /\ ctor[t].pc = "alloc"
    /\ allocs' = allocs + 1
    /\ _instance' = allocs + 1
    /\ attrs' = {} /\ settings' = NoneV /\ tts' = "None"
    /\ is_initialized' = FALSE /\ executor' = NoExecutor
    /\ ctor' = [ctor EXCEPT ![t].pc = "return"]
    /\ UNCHANGED <<loadCount, poolCount>>
    /\ RaceFrame

\* __new__: return cls._instance; __init__ then runs on that object
NewReturn(t) ==
    /\ ctor[t].pc = "return"
    /\ ctor' = [ctor EXCEPT ![t] = [pc |-> "guard", self |-> _instance]]
    /\ UNCHANGED <<_instance, allocs, attrs, settings, tts, is_initialized,
                   executor, loadCount, poolCount>>
    /\ RaceFrame

\* hasattr(obj, "is_initialized"); an object that _instance no longer refers
\* to has the attribute when a thread holding it has gone past InitFields
HasInitAttr(obj) ==
    IF obj = _instance
    THEN AlreadyInitialized(Self)
    ELSE \E u \in Threads : /\ ctor[u].self = obj
                            /\ ctor[u].pc \in {"pool", "engine", "done"}

\* __init__: the guard hasattr(self, "is_initialized")
InitGuard(t) ==
    /\ ctor[t].pc = "guard"
    /\ ctor' = [ctor EXCEPT ![t].pc =
                    IF HasInitAttr(ctor[t].self) THEN "done" ELSE "fields"]
    /\ UNCHANGED <<_instance, allocs, attrs, settings, tts, is_initialized,
                   executor, loadCount, poolCount>>
    /\ RaceFrame

\* __init__: settings, tts = None, is_initialized = False, ..., logger
InitFields(t) ==
    /\ ctor[t].pc = "fields"
    /\ Assign(ctor[t].self,
              [Self EXCEPT !.settings = Some(_init_default_settings(NoSettings, TRUE)),
                           !.tts = "None", !.is_initialized = FALSE,
                           !.attrs = Self.attrs \cup
                               {"settings", "tts", "is_initialized",
                                "supported_languages", "speaker_voice_map", "logger"}])
    /\ ctor' = [ctor EXCEPT ![t].pc = "pool"]
    /\ UNCHANGED <<_instance, allocs, loadCount, poolCount>>
    /\ RaceFrame

\* __init__: self.executor = self._init_thread_pool()
InitPool(t) ==
    /\ ctor[t].pc = "pool"
    /\ poolCount' = poolCount + 1
    /\ Assign(ctor[t].self,
              [Self EXCEPT !.executor = _init_thread_pool(DefaultMaxWorkers),
                           !.attrs = Self.attrs \cup {"executor"}])
    /\ ctor' = [ctor EXCEPT ![t].pc = "engine"]
    /\ UNCHANGED <<_instance, allocs, loadCount>>
    /\ RaceFrame

\* __init__: _init_xtts_service (TTS(...), is_initialized = True) and
\* _validate_speaker_voices
InitEngine(t) ==
    /\ ctor[t].pc = "engine"
    /\ loadCount' = loadCount + 1
    /\ Assign(ctor[t].self, [Self EXCEPT !.tts = "loaded", !.is_initialized = TRUE])
    /\ ctor' = [ctor EXCEPT ![t].pc = "done"]
    /\ UNCHANGED <<_instance, allocs, poolCount>>
    /\ RaceFrame

\* XTTS2Service.get_service_info: the fields the model follows
get_service_info(self) ==
    [initialized |-> self.is_initialized,
     max_workers |-> self.settings[1].TTS_MAX_WORKERS,
     max_text_length |-> self.settings[1].TTS_MAX_TEXT_LENGTH]

(***************************************************************************)
(* generate_speech / clone_voice                                           *)
(***************************************************************************)
Texts == { Some(<<" ">>), Some(<<"a", " ">>), Some(<<"a", "a">>) }
Languages == { Some(<<"E", "N", " ">>), Some(<<"x", "x">>) }
RefOk == [name |-> "ref.wav", ext |-> <<".", "w", "a", "v">>, exists |-> TRUE,
          size |-> 10240, probe |-> "short"]
RefSmall == [name |-> "tiny.wav", ext |-> <<".", "w", "a", "v">>, exists |-> TRUE,
             size |-> 50, probe |-> "ok"]
Wavs == { NoneV, Some(RefOk), Some(RefSmall) }

\* XTTS2Service._check_service_status
_check_service_status(self) ==
    IF "is_initialized" \notin self.attrs
    THEN Raise("AttributeError", "no_attribute", {})
    ELSE IF ~self.is_initialized \/ self.tts = "None"
         THEN Raise("TTSServiceError", "not_initialized", {})
         ELSE Return("None")

\* (faulty variant) a submit that needs an idle worker
ExecutorSubmitWhenIdle(self) ==
    IF self.executor.shutdown
    THEN Raise("RuntimeError", "executor_shutdown", {})
    ELSE IF \A w \in DOMAIN self.executor.workers : self.executor.workers[w] # 0
         THEN Raise("RuntimeError", "no_idle_worker", {})
         ELSE Return("Future")

\* ThreadPoolExecutor.submit: refused once the pool is shut down
ExecutorSubmit(self) ==
    IF self.executor.shutdown
    THEN Raise("RuntimeError", "executor_shutdown", {})
    ELSE Return("Future")

\* the except clause of generate_speech / clone_voice: logs on self.logger,
\* then raises TTSServiceError from the exception caught
SubmitExcept(self, e) ==
    IF "logger" \notin self.attrs
    THEN Raise("AttributeError", "no_logger", {})
    ELSE Raise("TTSServiceError", e.cause, e.msg)

\* (faulty variant) a try block that checks the language before the text
SubmitTryLanguageFirst(self, kind, text, language, speaker_wav) ==
    LET st == _check_service_status(self) IN
    IF Raised(st) THEN st ELSE
    LET l == validate_xtts_language(language) IN
    IF Raised(l) THEN l ELSE
    LET t == _validate_text(text, self.settings[1].TTS_MAX_TEXT_LENGTH) IN
    IF Raised(t) THEN t ELSE
    LET w == IF kind = "cloned"
             THEN _validate_reference_wav(speaker_wav, TRUE)
             ELSE IF ~IsNone(speaker_wav)
                  THEN _validate_reference_wav(speaker_wav, FALSE)
                  ELSE Return("None")
    IN
    IF Raised(w) THEN w ELSE
    LET f == ExecutorSubmit(self) IN
    IF Raised(f) THEN f ELSE
    Return([kind |-> kind, text |-> t.val[1], language |-> l.val[1],
            speaker_wav |-> IF kind = "generated" /\ IsNone(speaker_wav)
                            THEN NoneV ELSE w.val])

\* the try block of generate_speech (kind "generated") and of clone_voice
\* (kind "cloned"): the checks in order, then the submit; the value returned
\* is the work item handed to the pool
SubmitTry(self, kind, text, language, speaker_wav) ==
    LET st == _check_service_status(self) IN
    IF Raised(st) THEN st ELSE
    LET t == _validate_text(text, self.settings[1].TTS_MAX_TEXT_LENGTH) IN
    IF Raised(t) THEN t ELSE
    LET l == validate_xtts_language(language) IN
    IF Raised(l) THEN l ELSE
    LET w == IF kind = "cloned"
             THEN _validate_reference_wav(speaker_wav, TRUE)
             ELSE IF ~IsNone(speaker_wav)
                  THEN _validate_reference_wav(speaker_wav, FALSE)
                  ELSE Return("None")
    IN
    IF Raised(w) THEN w ELSE
    LET f == ExecutorSubmit(self) IN
    IF Raised(f) THEN f ELSE
    Return([kind |-> kind, text |-> t.val[1], language |-> l.val[1],
            speaker_wav |-> IF kind = "generated" /\ IsNone(speaker_wav)
                            THEN NoneV ELSE w.val])

SubmitOutcome(self, kind, text, language, speaker_wav) ==
    LET r == SubmitTry(self, kind, text, language, speaker_wav)
    IN IF Raised(r) THEN SubmitExcept(self, r) ELSE r

\* the job ids whose Future is not resolved yet
Unfinished == { id \in DOMAIN jobs : jobs[id].state # "finished" }

\* a work item and its Future; `after` remembers the jobs already resolved
\* when this one was submitted
NewJob(item) ==
    [kind |-> item.kind, text |-> item.text, language |-> item.language,
     speaker_wav |-> item.speaker_wav, state |-> "queued", token |-> 0,
     result |-> NoneV, exception |-> "", after |-> DOMAIN jobs \ Unfinished]

\* one call of generate_speech / clone_voice, in a behaviour that accepts at
\* most `cap` jobs
SubmitUpTo(cap, op, kind, text, language, speaker_wav) ==
    LET r == SubmitOutcome(Self, kind, text, language, speaker_wav)
        id == Len(jobs) + 1
    IN /\ _instance # 0
       /\ IF Raised(r)
          THEN /\ lastCall' = Call(op, r, 0)
               /\ UNCHANGED <<jobs, executor>>
          ELSE /\ id <= cap
               /\ jobs' = Append(jobs, NewJob(r.val[1]))
               /\ executor' = [executor EXCEPT !.queue = Append(@, id)]
               /\ lastCall' = Call(op, r, id)
       /\ UNCHANGED <<_instance, allocs, attrs, settings, tts, is_initialized,
                      loadCount, poolCount, disk, voiceFiles, ctor, probe, pcDel, delPending,
                      cacheCleared, routerBound, shutdownEvent>>

Submit(op, kind, text, language, speaker_wav) ==
    SubmitUpTo(MaxJobs, op, kind, text, language, speaker_wav)

generate_speech(text, language, speaker_wav) ==
    Submit("generate_speech", "generated", text, language, speaker_wav)

clone_voice(text, speaker_wav, language) ==
    Submit("clone_voice", "cloned", text, language, speaker_wav)

(***************************************************************************)
(* The pool's workers: _generate_speech_sync / _clone_voice_sync           *)
(***************************************************************************)
Tokens == 1..MaxTokens
\* what tts_to_file can do: raise or return, having written a file of `wrote`
\* bytes at file_path (-1: nothing written)
EngineOutcomes == { [raises |-> FALSE, wrote |-> -1], [raises |-> FALSE, wrote |-> 99],
                    [raises |-> FALSE, wrote |-> 100], [raises |-> TRUE, wrote |-> -1] }

\* (faulty variant) one output directory and file prefix for both kinds of job
OutputPathOneKind(j) == [kind |-> "generated", language |-> j.language, token |-> j.token]

\* output_path of a job: directory by kind (and language), name by language
\* and random token
OutputPath(j) == [kind |-> j.kind, language |-> j.language, token |-> j.token]

Paths == [kind : {"generated", "cloned"}, language : SupportedValues, token : Tokens]

\* (faulty variant) an except clause that re-raises what it caught
SyncExceptReraise(e) == e

\* (faulty variant) an except clause that logs and returns nothing
SyncExceptSilent(e) == [exc |-> "", cause |-> "", msg |-> {}, val |-> NoneV]

\* the except clause of the two _sync functions
SyncExcept(e) == Raise("TTSServiceError", e.cause, {})

\* (faulty variant) a pool that hands out the newest work item first
DequeueNewest(q) == [item |-> q[Len(q)], rest |-> SubSeq(q, 1, Len(q) - 1)]

\* the pool's work queue: work items leave it in the order executor.submit
\* put them in
Dequeue(q) == [item |-> Head(q), rest |-> Tail(q)]

\* a free worker takes the head of the queue and runs the job up to the call
\* of tts_to_file; ensure_directory may raise (mkdir)
WorkerStart(w, token, mkdir_ok) ==
    /\ "executor" \in attrs
    /\ w \in DOMAIN executor.workers
    /\ executor.workers[w] = 0
    /\ \A v \in DOMAIN executor.workers : v < w => executor.workers[v] # 0
    /\ executor.queue # << >>
    /\ LET d  == Dequeue(executor.queue)
           id == d.item
       IN
       IF mkdir_ok
       THEN /\ jobs' = [jobs EXCEPT ![id].state = "running", ![id].token = token]
            /\ executor' = [executor EXCEPT !.queue = d.rest, !.workers[w] = id]
       ELSE /\ jobs' = [jobs EXCEPT ![id].state = "finished",
                          ![id].exception = SyncExcept(Raise("OSError", "mkdir", {})).exc]
            /\ executor' = [executor EXCEPT !.queue = d.rest]
    /\ UNCHANGED <<_instance, allocs, attrs, settings, tts, is_initialized, loadCount,
                   poolCount, disk, voiceFiles, ctor, probe, pcDel, delPending, cacheCleared,
                   routerBound, shutdownEvent, lastCall>>

\* (faulty variant) a _sync function that logs an engine failure and returns nothing
SyncFinishSwallow(path, raises, size) ==
    IF raises
    THEN [exc |-> "", cause |-> "", msg |-> {}, val |-> NoneV]
    ELSE LET v == _validate_audio(size)
         IN IF Raised(v) THEN SyncExcept(v) ELSE Return(path)

\* WorkerStart in two steps, as the scheduler may split it: the worker thread
\* takes the work item from the queue ...
WorkerTake(w) ==
    /\ "executor" \in attrs
    /\ w \in DOMAIN executor.workers
    /\ executor.workers[w] = 0
    /\ \A v \in DOMAIN executor.workers : v < w => executor.workers[v] # 0
    /\ executor.queue # << >>
    /\ LET d == Dequeue(executor.queue) IN
       /\ jobs' = [jobs EXCEPT ![d.item].state = "taken"]
       /\ executor' = [executor EXCEPT !.queue = d.rest, !.workers[w] = d.item]
    /\ UNCHANGED <<_instance, allocs, attrs, settings, tts, is_initialized, loadCount,
                   poolCount, disk, voiceFiles, ctor, probe, pcDel, delPending,
                   cacheCleared, routerBound, shutdownEvent, lastCall>>

\* ... and later enters the _sync function, up to the call of tts_to_file
WorkerRun(w, token, mkdir_ok) ==
    /\ "executor" \in attrs
    /\ w \in DOMAIN executor.workers
    /\ executor.workers[w] # 0
    /\ jobs[executor.workers[w]].state = "taken"
    /\ LET id == executor.workers[w] IN
       IF mkdir_ok
       THEN /\ jobs' = [jobs EXCEPT ![id].state = "running", ![id].token = token]
            /\ UNCHANGED executor
       ELSE /\ jobs' = [jobs EXCEPT ![id].state = "finished",
                          ![id].exception = SyncExcept(Raise("OSError", "mkdir", {})).exc]
            /\ executor' = [executor EXCEPT !.workers[w] = 0]
    /\ UNCHANGED <<_instance, allocs, attrs, settings, tts, is_initialized, loadCount,
                   poolCount, disk, voiceFiles, ctor, probe, pcDel, delPending,
                   cacheCleared, routerBound, shutdownEvent, lastCall>>

\* the rest of the _sync function once tts_to_file has returned or raised:
\* its outcome given the size found at output_path
SyncFinish(path, raises, size) ==
    IF raises
    THEN SyncExcept(Raise("RuntimeError", "engine", {}))
    ELSE LET v == _validate_audio(size)
         IN IF Raised(v) THEN SyncExcept(v) ELSE Return(path)

\* (faulty variant) a pool that puts a failed work item back in its queue
QueueAfterRetry(q, id, r) == IF Raised(r) THEN Append(q, id) ELSE q

\* the pool's queue once the _sync function of work item id has ended with
\* outcome r: the except clause logs and raises, nothing is submitted again
QueueAfter(q, id, r) == q

\* tts_to_file ends for the job of worker w; the worker resolves the Future
\* and is free again
WorkerFinish(w, o) ==
    /\ "executor" \in attrs
    /\ w \in DOMAIN executor.workers
    /\ executor.workers[w] # 0
    /\ jobs[executor.workers[w]].state = "running"
    /\ LET id == executor.workers[w]
           path == OutputPath(jobs[id])
           d == IF o.wrote >= 0 THEN [disk EXCEPT ![path] = o.wrote] ELSE disk
           r == SyncFinish(path, o.raises, d[path])
       IN /\ disk' = d
          /\ jobs' = [jobs EXCEPT ![id].state = "finished",
                                  ![id].result = r.val,
                                  ![id].exception = r.exc]
          /\ executor' = [executor EXCEPT !.workers[w] = 0,
                                          !.queue = QueueAfter(@, id, r)]
    /\ UNCHANGED <<_instance, allocs, attrs, settings, tts, is_initialized, loadCount,
                   poolCount, voiceFiles, ctor, probe, pcDel, delPending, cacheCleared,
                   routerBound, shutdownEvent, lastCall>>

(***************************************************************************)
(* XTTS2Service.__del__ and the application's shutdown_event               *)
(***************************************************************************)
\* (faulty variant) executor.shutdown(wait=False) returns at once
ShutdownNoWait == TRUE

\* executor.shutdown(wait=True, cancel_futures=False) returns only when every
\* queued and running work item has been executed
ShutdownWaitDone ==
    /\ executor.queue = << >>
    /\ \A w \in DOMAIN executor.workers : executor.workers[w] = 0

\* __del__ up to the point where executor.shutdown blocks: the pool refuses
\* new work items from here on
DelStart ==
    /\ pcDel' = "waiting"
    /\ delPending' = Unfinished
    /\ executor' = IF "executor" \in attrs
                   THEN [executor EXCEPT !.shutdown = TRUE] ELSE executor

__del__ ==
    /\ _instance # 0
    /\ pcDel = "idle"
    /\ DelStart
    /\ UNCHANGED <<_instance, allocs, attrs, settings, tts, is_initialized, loadCount,
                   poolCount, jobs, disk, voiceFiles, ctor, probe, cacheCleared, routerBound,
                   shutdownEvent, lastCall>>

\* (faulty variant) a release that empties the cache whenever there is a device
ReleaseCacheAlways(gpu) == gpu

\* step 2 of __del__: whether torch.cuda.empty_cache() is called
ReleaseCache(gpu) == "settings" \in attrs /\ settings[1].USE_GPU /\ gpu

\* the rest of __del__ once shutdown has returned: the device cache is
\* emptied when the settings exist, ask for the GPU and torch reports a device
DelFinish(gpu) ==
    /\ pcDel = "waiting"
    /\ ShutdownWaitDone
    /\ pcDel' = "done"
    /\ cacheCleared' = ReleaseCache(gpu)
    /\ UNCHANGED <<_instance, allocs, attrs, settings, tts, is_initialized, loadCount,
                   poolCount, executor, jobs, disk, voiceFiles, ctor, probe, delPending,
                   routerBound, shutdownEvent, lastCall>>

\* whether the object is still referenced once the router's name is deleted:
\* the class attribute XTTS2Service._instance keeps referring to it
Referenced == _instance # 0

\* shutdown_event: `del tts.tts_service`; the object is finalized only when
\* that was the last reference to it
shutdown_event ==
    /\ routerBound
    /\ ~shutdownEvent
    /\ routerBound' = FALSE
    /\ shutdownEvent' = TRUE
    /\ IF Referenced \/ pcDel # "idle"
       THEN UNCHANGED <<executor, pcDel, delPending>>
       ELSE DelStart
    /\ UNCHANGED <<_instance, allocs, attrs, settings, tts, is_initialized, loadCount,
                   poolCount, jobs, disk, voiceFiles, ctor, probe, cacheCleared, lastCall>>

(***************************************************************************)
(* The specification                                                       *)
(***************************************************************************)
NoCall == Call("none", Return("None"), 0)
NoProbe == [fn |-> "none", arg |-> NoneV, out |-> NoneV]

InitState ==
    /\ _instance = 0
    /\ allocs = 0
    /\ attrs = {}
    /\ settings = NoneV
    /\ tts = "None"
    /\ is_initialized = FALSE
    /\ loadCount = 0
    /\ poolCount = 0
    /\ executor = NoExecutor
    /\ jobs = << >>
    /\ disk = [p \in Paths |-> -1]
    /\ pcDel = "idle"
    /\ delPending = {}
    /\ cacheCleared = FALSE
    /\ routerBound = FALSE
    /\ shutdownEvent = FALSE
    /\ lastCall = NoCall
    /\ ctor = [t \in Threads |-> NoThread]

\* --- Spec: the job pipeline (construction, submission, the workers) with
\* --- well-formed requests
CoreSettings ==
    { NoSettings,
      [TTS_MAX_WORKERS |-> Some(1), TTS_MAX_TEXT_LENGTH |-> Some(1),
       USE_GPU |-> Some(FALSE)] }
CoreEnvs == [fail : {"none", "engine"}, gpu : {TRUE}]
CoreTexts == { Some(<<"a", " ">>) }
CoreLanguages == { Some(<<"E", "N", " ">>) }
CoreWavs == { NoneV, Some(RefOk) }

Init == InitState /\ voiceFiles = Speakers /\ probe = NoProbe

Next ==
    \/ \E u \in CoreSettings, e \in CoreEnvs : create_xtts2_service(u, e)
    \/ \E t \in CoreTexts, l \in CoreLanguages, w \in CoreWavs : generate_speech(t, l, w)
    \/ \E t \in CoreTexts, l \in CoreLanguages, w \in CoreWavs : clone_voice(t, w, l)
    \/ \E w \in 1..DefaultMaxWorkers, k \in Tokens, m \in BOOLEAN : WorkerStart(w, k, m)
    \/ \E w \in 1..DefaultMaxWorkers, o \in EngineOutcomes : WorkerFinish(w, o)

Spec == Init /\ [][Next]_vars

\* --- SpecLife: the pipeline together with __del__ and the shutdown event
LifeOutcomes == { [raises |-> FALSE, wrote |-> 100], [raises |-> TRUE, wrote |-> -1] }

NextLife ==
    \/ \E u \in CoreSettings, e \in CoreEnvs : create_xtts2_service(u, e)
    \/ \E t \in CoreTexts, l \in CoreLanguages : generate_speech(t, l, NoneV)
    \/ \E t \in CoreTexts, l \in CoreLanguages : clone_voice(t, Some(RefOk), l)
    \/ \E w \in 1..DefaultMaxWorkers, k \in Tokens : WorkerStart(w, k, TRUE)
    \/ \E w \in 1..DefaultMaxWorkers, o \in LifeOutcomes : WorkerFinish(w, o)
    \/ __del__
    \/ \E g \in BOOLEAN : DelFinish(g)
    \/ shutdown_event

SpecLife == Init /\ [][NextLife]_vars

\* --- SpecSubmit: construction (every failure point) and submission of
\* --- well-formed and ill-formed requests while workers take up jobs
NextSubmit ==
    \/ \E u \in UserSettings, e \in InitEnvs : create_xtts2_service(u, e)
    \/ \E t \in Texts, l \in Languages, w \in Wavs : generate_speech(t, l, w)
    \/ \E t \in Texts, l \in Languages, w \in Wavs : clone_voice(t, w, l)
    \/ \E w \in 1..DefaultMaxWorkers : WorkerStart(w, 1, TRUE)

SpecSubmit == Init /\ [][NextSubmit]_vars

\* --- SpecStart: construction from every state of the reference-voice
\* --- directory
InitStart == InitState /\ voiceFiles \in SUBSET Speakers /\ probe = NoProbe

NextStart ==
    \/ \E u \in UserSettings, e \in InitEnvs : Construct(u, e)
    \/ \E u \in UserSettings, e \in InitEnvs : create_xtts2_service(u, e)

SpecStart == InitStart /\ [][NextStart]_vars

(***************************************************************************)
(* Claims                                                                  *)
(***************************************************************************)
ConstructorOps == {"XTTS2Service", "create_xtts2_service"}
SubmitOps == {"generate_speech", "clone_voice"}

\* C1: whatever the sequence of XTTS2Service() / create_xtts2_service()
\* calls, one object is ever built and every call that returns hands out that
\* object, TTS(...) is constructed at most once, and a call never replaces
\* settings, a thread pool or an engine that an earlier call has set.
C1_Step ==
    /\ allocs' <= 1
    /\ loadCount' <= 1
    /\ poolCount' <= 1
    /\ (lastCall'.op \in ConstructorOps /\ lastCall'.exc = "") => lastCall'.ret = 1
    /\ _instance # 0 => _instance' = _instance
    /\ "settings" \in attrs => settings' = settings
    /\ "executor" \in attrs => (executor' = executor /\ poolCount' = poolCount)
    /\ loadCount > 0 => (loadCount' = loadCount /\ tts' = tts
                          /\ is_initialized' = is_initialized)
C1_SingletonIdempotent == [][C1_Step]_vars

\* a call that returns normally although reference files are missing is a
\* second call: the one that loaded the engine raised
C1_Witness ==
    /\ lastCall.op = "create_xtts2_service"
    /\ lastCall.exc = ""
    /\ lastCall.ret = 1
    /\ voiceFiles # Speakers
    /\ loadCount = 1
    /\ tts = "loaded"

\* C10: a construction that loads the engine raises the initialization error
\* exactly when some path of speaker_voice_map does not exist, and the
\* message names every speaker whose file is missing.
C10_Step ==
    (loadCount' = loadCount + 1 /\ tts' = "loaded") =>
        /\ (lastCall'.exc = "TTSInitializationError") <=> (Speakers \ voiceFiles # {})
        /\ lastCall'.exc = "" => lastCall'.msg = {}
        /\ lastCall'.exc # "" => /\ lastCall'.cause = "speaker_voices"
                                 /\ lastCall'.msg = Speakers \ voiceFiles
C10_MissingVoicesFailStart == [][C10_Step]_vars

C10_Witness ==
    /\ lastCall.op \in ConstructorOps
    /\ lastCall.exc = "TTSInitializationError"
    /\ lastCall.cause = "speaker_voices"
    /\ Cardinality(lastCall.msg) >= 2
    /\ lastCall.msg = Speakers \ voiceFiles
    /\ tts = "loaded"

\* the state the orchestrator keeps besides the record of the last call
Orchestrator == <<_instance, allocs, attrs, settings, tts, is_initialized, loadCount,
                  poolCount, executor, jobs, disk, pcDel, delPending, cacheCleared>>

\* a request is ill-formed: the text, once trimmed, is empty or longer than
\* max_len; the language is no key of the table; the reference audio, where
\* one is required or given, is absent, of another format or of another size
TrimmedText(text) == IF IsNone(text) THEN << >> ELSE Strip(text[1])
TextInvalid(text, max_len) ==
    TrimmedText(text) = << >> \/ Len(TrimmedText(text)) > max_len
LanguageInvalid(language) ==
    \/ IsNone(language)
    \/ Lower(Strip(language[1])) \notin { kv[1] : kv \in supported_langs }
WavInvalid(kind, speaker_wav) ==
    IF IsNone(speaker_wav) THEN kind = "cloned"
    ELSE \/ ~speaker_wav[1].exists
         \/ Lower(speaker_wav[1].ext) \notin AdmissibleExt
         \/ speaker_wav[1].size < MinRefBytes
         \/ speaker_wav[1].size > MaxRefBytes
RequestInvalid(kind, text, language, speaker_wav) ==
    \/ TextInvalid(text, settings[1].TTS_MAX_TEXT_LENGTH)
    \/ LanguageInvalid(language)
    \/ WavInvalid(kind, speaker_wav)

Kinds == { <<"generate_speech", "generated">>, <<"clone_voice", "cloned">> }

\* a step in which a call of op has returned or raised
Called(op) ==
    /\ lastCall'.op = op
    /\ (lastCall' # lastCall \/ Len(jobs') > Len(jobs))

\* C2 (as amended): a generate_speech / clone_voice call on a constructed
\* service whose text is empty or longer than TTS_MAX_TEXT_LENGTH once
\* trimmed, whose language is unsupported or whose reference audio is
\* inadmissible raises in the caller, and leaves the queue, the running jobs,
\* the initialized flag and the rest of the orchestrator unchanged.
C2_Step ==
    \A k \in Kinds, t \in Texts, l \in Languages, w \in Wavs :
        ( /\ Called(k[1])
          /\ "settings" \in attrs
          /\ RequestInvalid(k[2], t, l, w)
          /\ Submit(k[1], k[2], t, l, w) )
        => /\ lastCall'.exc # ""
           /\ lastCall'.ret = 0
           /\ UNCHANGED Orchestrator
C2_InvalidRequestRejected == [][C2_Step]_vars

\* a request rejected for its length while one job runs and another waits
C2_Witness ==
    /\ lastCall.op \in SubmitOps
    /\ lastCall.exc = "TTSServiceError"
    /\ lastCall.cause = "text_too_long"
    /\ executor.queue # << >>
    /\ \E w \in DOMAIN executor.workers : executor.workers[w] # 0

\* C2 (as stated): every text longer than TTS_MAX_TEXT_LENGTH is rejected
C2_Original_Step ==
    \A k \in Kinds, t \in Texts, l \in Languages, w \in Wavs :
        ( /\ Called(k[1])
          /\ "settings" \in attrs
          /\ Len(t[1]) > settings[1].TTS_MAX_TEXT_LENGTH
          /\ Submit(k[1], k[2], t, l, w) )
        => /\ lastCall'.exc # ""
           /\ UNCHANGED Orchestrator
C2_Original == [][C2_Original_Step]_vars

\* C3 (as stated): while is_initialized is false or there is no engine, every
\* generate_speech / clone_voice call raises the not-initialized error,
\* whatever its arguments, and enqueues nothing.
C3_Step ==
    \A k \in Kinds, t \in Texts, l \in Languages, w \in Wavs :
        ( /\ Called(k[1])
          /\ "is_initialized" \in attrs
          /\ (~is_initialized \/ tts = "None")
          /\ Submit(k[1], k[2], t, l, w) )
        => /\ lastCall'.exc = "TTSServiceError"
           /\ lastCall'.cause = "not_initialized"
           /\ UNCHANGED <<jobs, executor>>
C3_NotInitializedRejected == [][C3_Step]_vars

\* the workers that are inside tts_to_file
Busy == { w \in DOMAIN executor.workers : executor.workers[w] # 0 }
Finished == { id \in DOMAIN jobs : jobs[id].state = "finished" }
\* the jobs whose Future is resolved by this step
Resolved == { id \in DOMAIN jobs : jobs[id].state # "finished"
                                   /\ jobs'[id].state = "finished" }

\* C4 (as stated): at most one worker is inside tts_to_file at any time.
C4_EngineExclusive == Cardinality(Busy) <= 1

\* C7: the Future of every finished job, of either kind and whatever the
\* engine did, holds a path or an exception, never both and never neither.
C7_ExactlyOneOutcome ==
    \A id \in Finished : (jobs[id].result # NoneV) # (jobs[id].exception # "")

\* a generated job resolved with a path next to a cloned job resolved with an
\* exception
C7_Witness ==
    \E a, b \in Finished :
        /\ jobs[a].kind = "generated" /\ jobs[a].result # NoneV
        /\ jobs[a].exception = ""
        /\ jobs[b].kind = "cloned" /\ jobs[b].result = NoneV
        /\ jobs[b].exception = "TTSServiceError"

\* C8: when a job fails in its worker (directory creation, engine call or
\* output check), its Future holds a TTSServiceError and nothing else, the
\* worker is free again, no worker is lost, and the service stays
\* initialized with its pool open.
C8_Step ==
    \A id \in Resolved :
        jobs'[id].result = NoneV =>
            /\ jobs'[id].exception = "TTSServiceError"
            /\ \A w \in DOMAIN executor'.workers : executor'.workers[w] # id
            /\ DOMAIN executor'.workers = DOMAIN executor.workers
            /\ Busy' \subseteq Busy
            /\ executor'.shutdown = executor.shutdown
            /\ is_initialized' /\ tts' = "loaded"
            /\ lastCall' = lastCall
C8_WorkerFailureContained == [][C8_Step]_vars

\* a job submitted after another one had failed has been executed and has
\* produced its file
C8_Witness ==
    \E a, b \in Finished :
        /\ jobs[a].exception = "TTSServiceError"
        /\ a \in jobs[b].after
        /\ jobs[b].result = Some(OutputPath(jobs[b]))
        /\ is_initialized

\* C9: a job is resolved with a path only if that path is its output path and
\* the file there has at least 100 bytes once tts_to_file is over; when the
\* file is missing or smaller the job is resolved with an exception and no
\* path.
C9_Step ==
    \A id \in Resolved :
        LET path == OutputPath(jobs'[id]) IN
        /\ jobs'[id].result # NoneV =>
              /\ jobs'[id].result = Some(path)
              /\ disk'[path] >= MinAudioBytes
        /\ (jobs[id].state = "running" /\ disk'[path] < MinAudioBytes) =>
              /\ jobs'[id].result = NoneV
              /\ jobs'[id].exception = "TTSServiceError"
C9_PathOnlyForValidFile == [][C9_Step]_vars

\* a job that left an undersized file behind and was resolved with an
\* exception
C9_Witness ==
    \E id \in Finished :
        /\ jobs[id].token \in Tokens
        /\ disk[OutputPath(jobs[id])] \in 0..(MinAudioBytes - 1)
        /\ jobs[id].result = NoneV
        /\ jobs[id].exception = "TTSServiceError"

\* C5 (as stated): once the shutdown event has run or __del__ has begun,
\* every generate_speech / clone_voice call raises and enqueues nothing.
C5_Step ==
    \A op \in SubmitOps :
        (Called(op) /\ (shutdownEvent \/ pcDel # "idle")) =>
            /\ lastCall'.exc # ""
            /\ UNCHANGED <<jobs, executor>>
C5_RejectedAfterShutdown == [][C5_Step]_vars

\* C6: the jobs that were queued or running when __del__ began are all
\* resolved, with a path or an exception, by the time __del__ has released
\* the pool and the device cache; none of them is dropped.
C6_DrainedBeforeRelease ==
    pcDel = "done" =>
        /\ delPending \subseteq Finished
        /\ executor.queue = << >>
        /\ Busy = {}
        /\ \A id \in delPending :
              (jobs[id].result # NoneV) # (jobs[id].exception # "")

\* __del__ is over and a job it had to wait for has produced its file
C6_Witness ==
    /\ pcDel = "done"
    /\ Cardinality(delPending) >= 2
    /\ \E id \in delPending : jobs[id].result = Some(OutputPath(jobs[id]))
    /\ \E id \in delPending : jobs[id].exception = "TTSServiceError"

\* a start has failed at the engine load or at the reference-file check
StartFailed == loadCount > 0 /\ (tts = "None" \/ voiceFiles # Speakers)

\* C11 (as stated): after a start that failed at the engine load or at the
\* reference-file check, is_initialized is false, get_service_info reports
\* initialized = false, and no constructor call returns an initialized service.
C11_NeverReadyAfterFailedStart ==
    StartFailed =>
        /\ ~is_initialized
        /\ ~get_service_info(Self).initialized
        /\ ~(lastCall.op \in ConstructorOps /\ lastCall.exc = "" /\ is_initialized)

\* --- SpecRace: threads inside XTTS2Service() at the same time
NextRace ==
    \/ \E t \in Threads : NewTest(t)
    \/ \E t \in Threads : NewAlloc(t)
    \/ \E t \in Threads : NewReturn(t)
    \/ \E t \in Threads : InitGuard(t)
    \/ \E t \in Threads : InitFields(t)
    \/ \E t \in Threads : InitPool(t)
    \/ \E t \in Threads : InitEngine(t)

SpecRace == Init /\ [][NextRace]_vars

\* C12 (as stated): whatever the interleaving of the threads that call
\* XTTS2Service(), one object is created, TTS(...) is constructed at most
\* once and one thread pool is allocated.
C12_OneInstanceUnderRace == allocs <= 1 /\ loadCount <= 1 /\ poolCount <= 1

\* --- SpecQueue: the pipeline with the workers' take and run as separate
\* --- steps
NextQueue ==
    \/ \E u \in CoreSettings : create_xtts2_service(u, [fail |-> "none", gpu |-> TRUE])
    \/ \E t \in CoreTexts, l \in CoreLanguages : generate_speech(t, l, NoneV)
    \/ \E t \in CoreTexts, l \in CoreLanguages : clone_voice(t, Some(RefOk), l)
    \/ \E w \in 1..DefaultMaxWorkers : WorkerTake(w)
    \/ \E w \in 1..DefaultMaxWorkers, k \in Tokens, m \in BOOLEAN : WorkerRun(w, k, m)
    \/ \E w \in 1..DefaultMaxWorkers, o \in LifeOutcomes : WorkerFinish(w, o)

SpecQueue == Init /\ [][NextQueue]_vars

\* the jobs a worker has begun to execute
Started == { id \in DOMAIN jobs : jobs[id].state \in {"running", "finished"} }

\* C13 (as amended): work items leave the queue in submission order: when a
\* worker takes job b from the queue, no job submitted before b is still
\* waiting in it.
C13_Step ==
    \A b \in DOMAIN jobs :
        (jobs[b].state = "queued" /\ jobs'[b].state # "queued") =>
            \A a \in 1..(b - 1) : jobs[a].state # "queued"
C13_DequeuedInOrder == [][C13_Step]_vars

\* two jobs submitted one after the other have both been taken by workers
C13_Witness ==
    /\ Len(jobs) >= 2
    /\ \A id \in 1..2 : jobs[id].state \in {"taken", "running"}
    /\ executor.queue = << >>

\* C13 (as stated): a job never begins to execute before every job
\* submitted before it has begun to execute.
C13_Original_Step ==
    \A b \in DOMAIN jobs :
        (b \notin Started /\ b \in Started') =>
            \A a \in 1..(b - 1) : a \in Started
C13_Original == [][C13_Original_Step]_vars

\* --- SpecBusy: a pool of one worker that is given one job more than
\* --- the other specifications accept
BusySettings ==
    [TTS_MAX_WORKERS |-> Some(1), TTS_MAX_TEXT_LENGTH |-> NoneV, USE_GPU |-> NoneV]

NextBusy ==
    \/ create_xtts2_service(BusySettings, [fail |-> "none", gpu |-> TRUE])
    \/ \E t \in CoreTexts, l \in CoreLanguages :
          SubmitUpTo(MaxJobs + 1, "generate_speech", "generated", t, l, NoneV)
    \/ \E t \in CoreTexts, l \in CoreLanguages :
          SubmitUpTo(MaxJobs + 1, "clone_voice", "cloned", t, l, Some(RefOk))
    \/ \E w \in 1..DefaultMaxWorkers : WorkerStart(w, 1, TRUE)
    \/ \E w \in 1..DefaultMaxWorkers, o \in LifeOutcomes : WorkerFinish(w, o)

SpecBusy == Init /\ [][NextBusy]_vars

\* C14: on an initialized service a well-formed generate_speech / clone_voice
\* call returns a Future whatever the workers and the queue hold, and the
\* call itself only appends the job to the queue: no worker changes, no file
\* is written and no earlier job changes while it runs.
C14_Step ==
    /\ (is_initialized /\ tts = "loaded") =>
          \A k \in Kinds, t \in CoreTexts, l \in CoreLanguages :
              ~Raised(SubmitOutcome(Self, k[2], t, l, Some(RefOk)))
    /\ \A op \in SubmitOps :
          (Called(op) /\ lastCall'.exc = "") =>
              /\ executor'.workers = executor.workers
              /\ executor'.queue = Append(executor.queue, Len(jobs'))
              /\ disk' = disk
              /\ Len(jobs') = Len(jobs) + 1
              /\ SubSeq(jobs', 1, Len(jobs)) = jobs
              /\ jobs'[Len(jobs')].state = "queued"
              /\ lastCall'.ret = Len(jobs')
C14_SubmitDoesNotWait == [][C14_Step]_vars

\* a call has returned its Future while the only worker was inside
\* tts_to_file and another job was already waiting in the queue
C14_Witness ==
    /\ lastCall.op \in SubmitOps
    /\ lastCall.exc = ""
    /\ lastCall.ret = Len(jobs)
    /\ Len(executor.queue) >= 2
    /\ executor.queue[Len(executor.queue)] = lastCall.ret
    /\ DOMAIN executor.workers # {}
    /\ \A w \in DOMAIN executor.workers :
          executor.workers[w] # 0 /\ jobs[executor.workers[w]].state = "running"

(***************************************************************************)
(* SpecInput: one language or one reference audio, drawn at the start, is  *)
(* given to its validator and to every generate_speech / clone_voice call  *)
(***************************************************************************)
\* str.upper(), to write a language in capitals
Upper(s) ==
    [i \in 1..Len(s) |->
        IF \E n \in 1..26 : LowerChars[n] = s[i]
        THEN UpperChars[CHOOSE n \in 1..26 : LowerChars[n] = s[i]]
        ELSE s[i]]

\* languages as a caller may write them: every key of the table and some
\* strings that are none, plain, in capitals, and padded with whitespace
LanguageWords ==
    { kv[1] : kv \in supported_langs } \cup
    { << >>, <<"x","x">>, <<"e"," ","n">>, <<"z","h","_","c","n">>,
      <<"e","n","g">>, <<"k","o">> }
LanguageInputs ==
    LanguageWords \cup { Upper(k) : k \in LanguageWords }
                  \cup { <<" ">> \o Upper(k) \o <<"\n">> : k \in LanguageWords }

\* reference audio as clone_voice may be given it
ReferenceInputs ==
    { NoneV } \cup
    { Some(r) : r \in [name : {"ref"},
                       ext : { <<".","w","a","v">>, <<".","W","A","V">>,
                               <<".","m","p","3">>, <<".","o","g","g">> },
                       exists : BOOLEAN,
                       size : { 0, MinRefBytes - 1, MinRefBytes, MaxRefBytes,
                                MaxRefBytes + 1 },
                       probe : {"short", "ok", "long", "fail", "no_torchaudio"}] }

InputProbes ==
    { [fn |-> "validate_xtts_language", arg |-> l, out |-> NoneV] : l \in LanguageInputs }
    \cup
    { [fn |-> "_validate_reference_wav", arg |-> r, out |-> NoneV] : r \in ReferenceInputs }

\* the validator named by the probe is applied to the probe's argument
ApplyInput ==
    /\ probe.fn \in {"validate_xtts_language", "_validate_reference_wav"}
    /\ probe.out = NoneV
    /\ probe' = [probe EXCEPT !.out =
                    Some(IF probe.fn = "validate_xtts_language"
                         THEN validate_xtts_language(Some(probe.arg))
                         ELSE _validate_reference_wav(probe.arg, TRUE))]
    /\ UNCHANGED <<_instance, allocs, attrs, settings, tts, is_initialized, loadCount,
                   poolCount, executor, jobs, disk, voiceFiles, pcDel, delPending,
                   cacheCleared, routerBound, shutdownEvent, lastCall, ctor>>

\* a call with the probe's language, or a clone with the probe's reference
SubmitInput ==
    IF probe.fn = "validate_xtts_language"
    THEN \E t \in CoreTexts : generate_speech(t, Some(probe.arg), NoneV)
    ELSE \E t \in CoreTexts, l \in CoreLanguages : clone_voice(t, probe.arg, l)

InitInput == InitState /\ voiceFiles = Speakers /\ probe \in InputProbes

NextInput ==
    \/ ApplyInput
    \/ create_xtts2_service(NoSettings, [fail |-> "none", gpu |-> TRUE])
    \/ SubmitInput

SpecInput == InitInput /\ [][NextInput]_vars

TenCodes == {"en", "zh-cn", "es", "fr", "de", "it", "pt", "ru", "tr", "ja"}
\* how the ten codes are spelled
CodeSpelling ==
    { << <<"e","n">>, "en" >>, << <<"z","h","-","c","n">>, "zh-cn" >>,
      << <<"e","s">>, "es" >>, << <<"f","r">>, "fr" >>, << <<"d","e">>, "de" >>,
      << <<"i","t">>, "it" >>, << <<"p","t">>, "pt" >>, << <<"r","u">>, "ru" >>,
      << <<"t","r">>, "tr" >>, << <<"j","a">>, "ja" >> }
KnownAliases ==
    { <<"e","n","g","l","i","s","h">>, <<"z","h">>, <<"c","h","i","n","e","s","e">>,
      <<"s","p","a","n","i","s","h">>, <<"f","r","e","n","c","h">>,
      <<"g","e","r","m","a","n">>, <<"i","t","a","l","i","a","n">>,
      <<"p","o","r","t","u","g","u","e","s","e">>, <<"r","u","s","s","i","a","n">>,
      <<"t","u","r","k","i","s","h">>, <<"j","a","p","a","n","e","s","e">> }
Normalized(l) == Lower(Strip(l))
LanguageKnown(l) ==
    \/ \E cs \in CodeSpelling : cs[1] = Normalized(l)
    \/ Normalized(l) \in KnownAliases

\* C16: validate_xtts_language returns one of the ten codes for every input
\* that, trimmed and lower-cased, is a code or a known alias (a code is
\* returned as itself, "chinese" as zh-cn), and raises XTTSLanguageError
\* listing the ten codes for every other input; calls made with a rejected
\* language raise with that list and enqueue nothing, calls made with an
\* accepted one enqueue jobs in the canonical code.
C16_LanguageCanonical ==
    probe.fn = "validate_xtts_language" =>
        /\ probe.out # NoneV =>
              LET o == probe.out[1] IN
              IF LanguageKnown(probe.arg)
              THEN /\ o.exc = ""
                   /\ o.val[1] \in TenCodes
                   /\ \A cs \in CodeSpelling :
                         cs[1] = Normalized(probe.arg) => o.val[1] = cs[2]
                   /\ Normalized(probe.arg) = <<"c","h","i","n","e","s","e">>
                         => o.val[1] = "zh-cn"
              ELSE /\ o.exc = "XTTSLanguageError"
                   /\ o.msg = TenCodes
        /\ \A id \in DOMAIN jobs : jobs[id].language \in TenCodes
        /\ ~LanguageKnown(probe.arg) =>
              /\ jobs = << >>
              /\ executor.queue = << >>
              /\ lastCall.op \in SubmitOps =>
                    lastCall.exc = "TTSServiceError" /\ lastCall.msg = TenCodes
        /\ (LanguageKnown(probe.arg) /\ lastCall.op \in SubmitOps) =>
              lastCall.exc = "" \/ Len(jobs) = MaxJobs

\* " CHINESE\n" has been accepted as zh-cn and a job enqueued in that code
C16_Witness ==
    /\ probe.fn = "validate_xtts_language"
    /\ probe.arg = <<" ">> \o Upper(<<"c","h","i","n","e","s","e">>) \o <<"\n">>
    /\ probe.out # NoneV
    /\ probe.out[1].val = Some("zh-cn")
    /\ jobs # << >>
    /\ jobs[1].language = "zh-cn"

ReferenceBad(r) ==
    \/ IsNone(r)
    \/ ~r[1].exists
    \/ Lower(r[1].ext) \notin { <<".","w","a","v">>, <<".","m","p","3">> }
    \/ r[1].size < 10 * 1024
    \/ r[1].size > 10 * 1024 * 1024

\* C17: the reference check of clone_voice raises for an absent or missing
\* file, for an extension other than .wav / .mp3 and for a size below 10 KB
\* or above 10 MB, and then nothing is enqueued; any other file passes,
\* whatever the duration probe finds or however it fails, and clone jobs are
\* enqueued with it.
C17_ReferenceBySizeAndFormat ==
    probe.fn = "_validate_reference_wav" =>
        /\ probe.out # NoneV =>
              /\ Raised(probe.out[1]) <=> ReferenceBad(probe.arg)
              /\ ~Raised(probe.out[1]) => probe.out[1].val = probe.arg
        /\ ReferenceBad(probe.arg) =>
              /\ jobs = << >>
              /\ executor.queue = << >>
              /\ lastCall.op \in SubmitOps => lastCall.exc = "TTSServiceError"
        /\ ~ReferenceBad(probe.arg) =>
              /\ \A id \in DOMAIN jobs : jobs[id].speaker_wav = probe.arg
              /\ lastCall.op \in SubmitOps =>
                    lastCall.exc = "" \/ Len(jobs) = MaxJobs

\* a 10 MB .WAV file whose duration cannot be probed has passed and a clone
\* job holds it
C17_Witness ==
    /\ probe.fn = "_validate_reference_wav"
    /\ probe.arg # NoneV
    /\ probe.arg[1].probe = "fail"
    /\ probe.arg[1].size = MaxRefBytes
    /\ probe.arg[1].ext = <<".","W","A","V">>
    /\ probe.out # NoneV
    /\ ~Raised(probe.out[1])
    /\ jobs # << >>
    /\ jobs[1].kind = "cloned"

(***************************************************************************)
(* The HTTP operations: routers/tts.py and routers/voice_clone.py          *)
(***************************************************************************)
XttsModel == "tts_models/multilingual/multi-dataset/xtts_v2"

\* XTTS2Service.get_models: the one model of the settings (the fallback of
\* its except clause is the same list)
get_models == { XttsModel }

\* XTTS2Service.get_speakers: name and language of the eight speakers
get_speakers ==
    { [name |-> "zh_cn_0", language |-> "zh-cn"], [name |-> "en_us_0", language |-> "en"],
      [name |-> "es_0", language |-> "es"], [name |-> "fr_0", language |-> "fr"],
      [name |-> "de_0", language |-> "de"], [name |-> "pt_0", language |-> "pt"],
      [name |-> "tr_0", language |-> "tr"], [name |-> "ja_0", language |-> "ja"] }

\* how the speaker names are spelled in a request
SpeakerSpelling ==
    { << <<"z","h","_","c","n","_","0">>, "zh_cn_0" >>,
      << <<"e","n","_","u","s","_","0">>, "en_us_0" >>,
      << <<"e","s","_","0">>, "es_0" >>, << <<"f","r","_","0">>, "fr_0" >>,
      << <<"d","e","_","0">>, "de_0" >>, << <<"p","t","_","0">>, "pt_0" >>,
      << <<"t","r","_","0">>, "tr_0" >>, << <<"j","a","_","0">>, "ja_0" >> }

\* the characters of a language code
Chars(code) == (CHOOSE cs \in CodeSpelling : cs[2] = code)[1]

\* raise HTTPException(status_code=..., detail=...)
HTTPException(status, cause) ==
    [exc |-> "HTTPException", cause |-> cause, msg |-> {}, val |-> NoneV,
     status_code |-> status]

\* what the client receives; item is the work item handed to the pool, if
\* the handler got that far
Response(status, cause, data, item) ==
    [status_code |-> status, cause |-> cause, data |-> data, item |-> item]

\* the dependency validate_model; model is the query parameter
validate_model(model) ==
    LET m == IF model \in {NoneV, Some("default")} THEN XttsModel ELSE model[1]
    IN IF m \notin get_models
       THEN HTTPException(400, "model_invalid")
       ELSE Return(m)

\* (faulty variant) an unknown speaker falls back to the default speaker
ValidateSpeakerFallback(request) ==
    LET speaker == Strip(request.speaker)
    IN IF speaker = << >>
       THEN HTTPException(400, "speaker_empty")
       ELSE IF ~ \E ss \in SpeakerSpelling : ss[1] = speaker
       THEN Return("zh_cn_0")
       ELSE Return((CHOOSE ss \in SpeakerSpelling : ss[1] = speaker)[2])

\* the dependency validate_speaker
validate_speaker(request) ==
    LET speaker == Strip(request.speaker)
    IN IF speaker = << >>
       THEN HTTPException(400, "speaker_empty")
       ELSE IF ~ \E ss \in SpeakerSpelling : ss[1] = speaker
       THEN HTTPException(400, "speaker_unknown")
       ELSE Return((CHOOSE ss \in SpeakerSpelling : ss[1] = speaker)[2])

\* the file speaker_voice_map names for a speaker, as the disk holds it
SpeakerVoice(speaker, env) ==
    [name |-> speaker, ext |-> <<".","w","a","v">>, exists |-> env.voice_exists,
     size |-> env.voice_size, probe |-> "ok"]

\* the Future of an accepted work item, awaited: the outcome of the _sync
\* function for the engine's behaviour env.engine
AwaitFuture(item, env) ==
    LET path == OutputPath([kind |-> item.kind, language |-> item.language,
                            token |-> env.token])
        size == IF env.engine.wrote >= 0 THEN env.engine.wrote ELSE disk[path]
    IN SyncFinish(path, env.engine.raises, size)

\* (faulty variant) except clauses that take a TTSServiceError for a
\* ValueError
GenerateExceptServiceAs400(e, item) ==
    IF e.exc \in {"ValueError", "TTSServiceError"}
    THEN Response(400, e.cause, NoneV, item)
    ELSE Response(500, e.cause, NoneV, item)

\* the except clauses of generate_tts and generate_tts_with_clone:
\* ValueError answers 400, every other exception 500
GenerateExcept(e, item) ==
    IF e.exc = "ValueError"
    THEN Response(400, e.cause, NoneV, item)
    ELSE Response(500, e.cause, NoneV, item)

\* POST /generate: the two dependencies, then the handler
generate_tts(self, request, model, env) ==
    LET valid_model == validate_model(model) IN
    IF Raised(valid_model)
    THEN Response(valid_model.status_code, valid_model.cause, NoneV, NoneV)
    ELSE
    LET valid_speaker == validate_speaker(request) IN
    IF Raised(valid_speaker)
    THEN Response(valid_speaker.status_code, valid_speaker.cause, NoneV, NoneV)
    ELSE
    LET speaker_wav == SpeakerVoice(valid_speaker.val[1], env) IN
    IF ~speaker_wav.exists
    THEN GenerateExcept(Raise("ValueError", "speaker_wav_missing", {}), NoneV)
    ELSE
    LET language == (CHOOSE sp \in get_speakers : sp.name = valid_speaker.val[1]).language
        future == SubmitOutcome(self, "generated", Some(request.text),
                                Some(Chars(language)), Some(speaker_wav))
    IN
    IF Raised(future)
    THEN GenerateExcept(future, NoneV)
    ELSE
    LET output_file == AwaitFuture(future.val[1], env) IN
    IF Raised(output_file)
    THEN GenerateExcept(output_file, future.val)
    ELSE Response(200, "", output_file.val, future.val)

\* POST /generate-with-clone: XTTS2Service has no generate_speech_with_clone,
\* so the call at the end of the checks raises AttributeError
generate_tts_with_clone(self, request, model, env) ==
    LET valid_model == validate_model(model) IN
    IF Raised(valid_model)
    THEN Response(valid_model.status_code, valid_model.cause, NoneV, NoneV)
    ELSE IF request.material_id = << >> \/ request.text = << >>
    THEN GenerateExcept(HTTPException(400, "clone_params_empty"), NoneV)
    ELSE IF ~env.material_exists
    THEN GenerateExcept(Raise("ValueError", "material_missing", {}), NoneV)
    ELSE GenerateExcept(Raise("AttributeError", "generate_speech_with_clone", {}), NoneV)

\* POST /generate of voice_clone.py: clone_voice has no parameter `model`,
\* so the call raises TypeError; ValueError and FileNotFoundError answer 400
clone_voice_route(self, request) ==
    LET e == Raise("TypeError", "unexpected_keyword_model", {})
    IN IF e.exc \in {"ValueError", "FileNotFoundError"}
       THEN Response(400, e.cause, NoneV, NoneV)
       ELSE Response(500, e.cause, NoneV, NoneV)

\* --- SpecHttp: one request, drawn at the start, is answered by the service
\* --- the application created when it was started
LongText == [i \in 1..(DefaultMaxTextLength + 1) |-> "a"]
HttpTexts == { << >>, <<" ">>, <<"a">>, LongText }
HttpSpeakers ==
    { <<"z","h","_","c","n","_","0">>,
      <<" ">> \o <<"e","n","_","u","s","_","0">> \o <<" ">>,
      <<"j","a","_","0">>, <<"n","o">>, << >>, <<" ">> }
HttpModels == { NoneV, Some("default"), Some(XttsModel), Some("bad") }
HttpEnvs == [voice_exists : BOOLEAN, voice_size : {MinRefBytes - 1, MinRefBytes},
             engine : EngineOutcomes, token : Tokens]
CloneEnvs == [material_exists : BOOLEAN]
MaterialIds == { << >>, <<"m">> }
RefMissing == [name |-> "gone.wav", ext |-> <<".", "w", "a", "v">>, exists |-> FALSE,
               size |-> 0, probe |-> "fail"]

HttpProbes ==
    { [fn |-> "generate_tts", arg |-> [request |-> [text |-> t, speaker |-> sp],
                                       model |-> m, env |-> e], out |-> NoneV] :
        t \in HttpTexts, sp \in HttpSpeakers, m \in HttpModels, e \in HttpEnvs }
    \cup
    { [fn |-> "generate_tts_with_clone",
       arg |-> [request |-> [text |-> t, material_id |-> id], model |-> m, env |-> e],
       out |-> NoneV] :
        t \in HttpTexts, id \in MaterialIds, m \in HttpModels, e \in CloneEnvs }
    \cup
    { [fn |-> "voice_clone", arg |-> [request |-> [text |-> t, speaker_wav |-> w]],
       out |-> NoneV] : t \in HttpTexts, w \in {RefOk, RefSmall} }
    \cup
    { [fn |-> k, arg |-> [text |-> Some(t), language |-> l, speaker_wav |-> w],
       out |-> NoneV] :
        k \in SubmitOps, t \in HttpTexts, l \in Languages,
        w \in Wavs \cup {Some(RefMissing)} }

\* the value the probed operation gives on the service as it is
HttpOutcome ==
    IF probe.fn = "generate_tts"
    THEN generate_tts(Self, probe.arg.request, probe.arg.model, probe.arg.env)
    ELSE IF probe.fn = "generate_tts_with_clone"
    THEN generate_tts_with_clone(Self, probe.arg.request, probe.arg.model, probe.arg.env)
    ELSE IF probe.fn = "voice_clone"
    THEN clone_voice_route(Self, probe.arg.request)
    ELSE SubmitOutcome(Self, IF probe.fn = "clone_voice" THEN "cloned" ELSE "generated",
                       probe.arg.text, probe.arg.language, probe.arg.speaker_wav)

\* the request is answered: a handler that got as far as the pool has enqueued
\* a job and awaited it
ApplyHttp ==
    /\ routerBound
    /\ probe.fn \in {"generate_tts", "generate_tts_with_clone", "voice_clone"}
    /\ probe.out = NoneV
    /\ Len(jobs) < MaxJobs
    /\ LET r == HttpOutcome
       IN /\ probe' = [probe EXCEPT !.out = Some(r)]
          /\ IF r.item = NoneV
             THEN UNCHANGED <<jobs, disk>>
             ELSE LET e == probe.arg.env
                      j == [NewJob(r.item[1]) EXCEPT
                               !.state = "finished", !.token = e.token,
                               !.result = r.data,
                               !.exception = IF r.data = NoneV
                                             THEN "TTSServiceError" ELSE ""]
                  IN /\ jobs' = Append(jobs, j)
                     /\ disk' = IF e.engine.wrote >= 0
                                THEN [disk EXCEPT ![OutputPath(j)] = e.engine.wrote]
                                ELSE disk
    /\ UNCHANGED <<_instance, allocs, attrs, settings, tts, is_initialized, loadCount,
                   poolCount, executor, voiceFiles, pcDel, delPending, cacheCleared,
                   routerBound, shutdownEvent, lastCall, ctor>>

\* generate_speech / clone_voice is called directly and its checks answer
ApplyChecks ==
    /\ routerBound
    /\ probe.fn \in SubmitOps
    /\ probe.out = NoneV
    /\ probe' = [probe EXCEPT !.out = Some(HttpOutcome)]
    /\ UNCHANGED <<_instance, allocs, attrs, settings, tts, is_initialized, loadCount,
                   poolCount, executor, jobs, disk, voiceFiles, pcDel, delPending,
                   cacheCleared, routerBound, shutdownEvent, lastCall, ctor>>

InitHttp == InitState /\ voiceFiles = Speakers /\ probe \in HttpProbes

NextHttp ==
    \/ create_xtts2_service(NoSettings, [fail |-> "none", gpu |-> TRUE])
    \/ ApplyHttp
    \/ ApplyChecks

SpecHttp == InitHttp /\ [][NextHttp]_vars

TextCauses == {"text_empty", "text_too_long"}
LanguageCauses == {"language_none", "language_unsupported"}
WavCauses == {"wav_none", "wav_missing", "wav_format", "wav_too_small", "wav_too_large"}
SpeakerCauses == {"speaker_empty", "speaker_unknown"}
ModelInvalid(model) == model \notin {NoneV, Some("default"), Some(XttsModel)}
SpeakerInvalid(speaker) == ~ \E ss \in SpeakerSpelling : ss[1] = Strip(speaker)
VoiceInvalid(env) == env.voice_size < MinRefBytes \/ env.voice_size > MaxRefBytes

GenerateInvalid(a) ==
    \/ ModelInvalid(a.model)
    \/ SpeakerInvalid(a.request.speaker)
    \/ TextInvalid(Some(a.request.text), DefaultMaxTextLength)
    \/ ~a.env.voice_exists
    \/ VoiceInvalid(a.env)
EngineFailed(env) == env.engine.raises \/ env.engine.wrote < MinAudioBytes

\* C18: POST /generate answers 400 whenever the request fails validation
\* (empty or too long text, unknown speaker, invalid model, inadmissible
\* reference audio) and answers 500 only when the engine fails on an
\* accepted job.
C18_ValidationAnswers400 ==
    (probe.fn = "generate_tts" /\ probe.out # NoneV) =>
        LET a == probe.arg
            r == probe.out[1]
        IN /\ GenerateInvalid(a) => r.status_code = 400
           /\ r.status_code = 500 =>
                 (~GenerateInvalid(a) /\ r.item # NoneV /\ EngineFailed(a.env))

CloneInvalid(a) ==
    \/ ModelInvalid(a.model)
    \/ a.request.text = << >>
    \/ a.request.material_id = << >>
    \/ ~a.env.material_exists

\* C19: POST /generate-with-clone, given a non-empty text and the id of an
\* uploaded material, enqueues a clone job and answers 200 with the file
\* path when the engine succeeds; it answers 400 on every validation error
\* and 500 only on an engine error.
C19_CloneOperation ==
    (probe.fn = "generate_tts_with_clone" /\ probe.out # NoneV) =>
        LET a == probe.arg
            r == probe.out[1]
        IN /\ CloneInvalid(a) => r.status_code = 400
           /\ ~CloneInvalid(a) => (r.item # NoneV /\ r.status_code \in {200, 500})
           /\ r.status_code = 200 => r.data # NoneV
           /\ r.status_code = 500 => r.item # NoneV

\* --- SpecDrain: SpecLife with the scheduling the runtime gives: a free
\* --- worker takes a queued work item, and __del__ goes on once
\* --- executor.shutdown has returned. tts_to_file is a call into the engine
\* --- that may never return, so no fairness is put on WorkerFinish.
SpecDrain ==
    /\ Init
    /\ [][NextLife]_vars
    /\ WF_vars(\E w \in 1..DefaultMaxWorkers, k \in Tokens : WorkerStart(w, k, TRUE))
    /\ WF_vars(\E g \in BOOLEAN : DelFinish(g))

\* C20: shutdown is a bounded drain: once __del__ has begun it always
\* finishes, releasing the device cache, even when an engine call in flight
\* never returns.
C20_ShutdownTerminates == (pcDel = "waiting") ~> (pcDel = "done")

\* --- SpecRelease: construction that may fail at any point, from every
\* --- state of the reference-voice directory, and the release of the object
NextRelease ==
    \/ \E u \in UserSettings, e \in InitEnvs : Construct(u, e)
    \/ __del__
    \/ \E g \in BOOLEAN : DelFinish(g)

SpecRelease == InitStart /\ [][NextRelease]_vars

\* C21: __del__ is safe whatever point __init__ reached: it starts on any
\* object, shuts down a pool only when the object has one, empties the device
\* cache only when the object has settings that ask for the GPU, changes no
\* other field, and when the engine was never loaded it is not held up by
\* the pool, so it runs to its end.
C21_Step ==
    /\ (_instance # 0 /\ pcDel = "idle") => ENABLED __del__
    /\ (pcDel = "waiting" /\ tts # "loaded") => ENABLED (\E g \in BOOLEAN : DelFinish(g))
    /\ pcDel' # pcDel =>
          /\ <<_instance, attrs, settings, tts, is_initialized, jobs, disk>>'
                = <<_instance, attrs, settings, tts, is_initialized, jobs, disk>>
          /\ "executor" \notin attrs => executor' = executor
          /\ "executor" \in attrs =>
                executor' = [executor EXCEPT !.shutdown = @ \/ pcDel = "idle"]
          /\ cacheCleared' =>
                ("settings" \in attrs /\ settings[1].USE_GPU /\ pcDel' = "done")
C21_ReleaseSafeAfterFailedStart == [][C21_Step]_vars

\* the release has run to its end on an object whose __init__ raised before
\* it set anything
C21_Witness ==
    /\ pcDel = "done"
    /\ _instance # 0
    /\ attrs = {}
    /\ lastCall.op = "XTTS2Service"
    /\ lastCall.exc # ""
    /\ ~cacheCleared

\* C22: tts_to_file is called only by a pool worker for a job that passed
\* the checks: whenever a job is inside the engine a worker holds it, the
\* service is initialized with an engine loaded, the job's text is trimmed,
\* non-empty and no longer than TTS_MAX_TEXT_LENGTH, its language is one of
\* the ten codes, and its reference audio, required for a clone job, exists,
\* is .wav / .mp3 and has between 10 KB and 10 MB.
C22_EngineOnlyValidatedJobs ==
    \A id \in DOMAIN jobs :
        jobs[id].state = "running" =>
            LET j == jobs[id] IN
            /\ is_initialized /\ tts = "loaded"
            /\ \E w \in DOMAIN executor.workers : executor.workers[w] = id
            /\ j.text # << >>
            /\ Strip(j.text) = j.text
            /\ Len(j.text) <= settings[1].TTS_MAX_TEXT_LENGTH
            /\ j.language \in TenCodes
            /\ j.kind = "cloned" => j.speaker_wav # NoneV
            /\ j.speaker_wav # NoneV =>
                  LET p == j.speaker_wav[1] IN
                  /\ p.exists
                  /\ Lower(p.ext) \in { <<".","w","a","v">>, <<".","m","p","3">> }
                  /\ p.size >= MinRefBytes /\ p.size <= MaxRefBytes

\* a clone job is inside the engine on a service limited to one character,
\* after a call was rejected
C22_Witness ==
    /\ \E id \in DOMAIN jobs :
          /\ jobs[id].state = "running"
          /\ jobs[id].kind = "cloned"
          /\ jobs[id].text = <<"a">>
    /\ settings # NoneV
    /\ settings[1].TTS_MAX_TEXT_LENGTH = 1
    /\ lastCall.op \in SubmitOps
    /\ lastCall.exc = "TTSServiceError"

\* the jobs a worker holds
Held == { executor.workers[w] : w \in Busy }

\* C23: the pool has as many workers as TTS_MAX_WORKERS says (4 when the
\* settings do not say), a worker holds one job at a time and no job is held
\* by two workers, so at most TTS_MAX_WORKERS jobs are being executed; every
\* other accepted job that is not finished waits in the queue.
C23_PoolFixedSize ==
    "executor" \in attrs =>
        /\ DOMAIN executor.workers = 1..settings[1].TTS_MAX_WORKERS
        /\ Cardinality(Busy) <= settings[1].TTS_MAX_WORKERS
        /\ Cardinality(Held) = Cardinality(Busy)
        /\ Cardinality({ id \in DOMAIN jobs : jobs[id].state = "running" })
              <= settings[1].TTS_MAX_WORKERS
        /\ \A id \in DOMAIN jobs :
              /\ jobs[id].state = "running" => id \in Held
              /\ jobs[id].state = "queued" <=>
                    \E i \in DOMAIN executor.queue : executor.queue[i] = id
              /\ ~(id \in Held /\ \E i \in DOMAIN executor.queue : executor.queue[i] = id)
        /\ settings[1].TTS_MAX_WORKERS \in {1, DefaultMaxWorkers}

\* on a pool of one worker a job is being executed and another waits
C23_Witness ==
    /\ "executor" \in attrs
    /\ settings[1].TTS_MAX_WORKERS = 1
    /\ Cardinality(Busy) = 1
    /\ executor.queue # << >>
    /\ \E id \in DOMAIN jobs : jobs[id].state = "running"

\* C24: a job is never retried: a job that has entered the engine goes on
\* to finished and nowhere else, a finished job keeps its outcome and is
\* never queued or held again, and the only way a work item enters the queue
\* is a generate_speech / clone_voice call that returns, which adds one new
\* job.
C24_Step ==
    /\ \A id \in DOMAIN jobs :
          /\ jobs[id].state = "running" =>
                /\ jobs'[id].state \in {"running", "finished"}
                /\ jobs'[id].token = jobs[id].token
          /\ jobs[id].state = "finished" =>
                /\ jobs'[id] = jobs[id]
                /\ id \notin Held'
                /\ \A i \in DOMAIN executor'.queue : executor'.queue[i] # id
          /\ (jobs[id].state # "running" /\ jobs'[id].state = "running") =>
                jobs[id].state = "queued"
    /\ Len(jobs') >= Len(jobs)
    /\ \A i \in DOMAIN executor'.queue :
          (\A k \in DOMAIN executor.queue : executor.queue[k] # executor'.queue[i]) =>
              /\ executor'.queue[i] = Len(jobs) + 1
              /\ Len(jobs') = Len(jobs) + 1
              /\ lastCall'.op \in SubmitOps
              /\ lastCall'.exc = ""
              /\ lastCall'.ret = Len(jobs')
C24_NoAutomaticRetry == [][C24_Step]_vars

\* the engine failed on the first job, which stays failed with nothing
\* queued, while a job submitted afterwards is inside the engine
C24_Witness ==
    /\ Len(jobs) = 2
    /\ jobs[1].state = "finished"
    /\ jobs[1].exception = "TTSServiceError"
    /\ jobs[1].token # 0
    /\ jobs[2].state = "running"
    /\ jobs[2].after = {1}
    /\ executor.queue = << >>

\* the jobs whose _sync function has built its output path
WithPath == { id \in DOMAIN jobs : jobs[id].token \in Tokens }

\* C25 (as stated): the output paths of different jobs differ, also for jobs
\* of the same kind and language run in the same second, and no job writes
\* to a path at which there is a file.
C25_Step ==
    /\ \A a, b \in WithPath' : a # b => OutputPath(jobs'[a]) # OutputPath(jobs'[b])
    /\ \A p \in Paths : ~(disk[p] >= 0 /\ disk'[p] # disk[p])
C25_PathsNeverCollide == [][C25_Step]_vars

\* --- SpecInfo: the pipeline, with construction that may fail at any point,
\* --- and get_service_info called at any moment on the object there is
\* a call of get_service_info on the object a constructor call has returned:
\* the attributes it reads must exist
GetServiceInfo ==
    /\ routerBound
    /\ probe' = [fn |-> "get_service_info", arg |-> NoneV,
                 out |-> Some(IF {"is_initialized", "settings", "supported_languages"}
                                     \subseteq attrs
                              THEN Return(get_service_info(Self))
                              ELSE Raise("AttributeError", "no_attribute", {}))]
    /\ UNCHANGED <<_instance, allocs, attrs, settings, tts, is_initialized, loadCount,
                   poolCount, executor, jobs, disk, voiceFiles, pcDel, delPending,
                   cacheCleared, routerBound, shutdownEvent, lastCall, ctor>>

NextInfo ==
    \/ \E u \in UserSettings, e \in InitEnvs : create_xtts2_service(u, e)
    \/ \E t \in CoreTexts, l \in CoreLanguages : generate_speech(t, l, NoneV)
    \/ \E t \in CoreTexts, l \in CoreLanguages : clone_voice(t, Some(RefOk), l)
    \/ \E w \in 1..DefaultMaxWorkers : WorkerStart(w, 1, TRUE)
    \/ \E w \in 1..DefaultMaxWorkers, o \in LifeOutcomes : WorkerFinish(w, o)
    \/ GetServiceInfo

SpecInfo == Init /\ [][NextInfo]_vars

\* C26 (as stated): get_service_info can be called in every state of the
\* service, also while every worker is busy; it returns the initialized
\* flag, the worker count and the maximum text length as they are, and
\* leaves the queue, the jobs, the settings and the engine as they were.
C26_Step ==
    probe' # probe =>
        /\ ~Raised(probe'.out[1])
        /\ probe'.out[1].val[1].initialized = is_initialized
        /\ probe'.out[1].val[1].max_workers = settings[1].TTS_MAX_WORKERS
        /\ probe'.out[1].val[1].max_text_length = settings[1].TTS_MAX_TEXT_LENGTH
        /\ UNCHANGED Orchestrator
C26_InfoReadOnlyAlways == [][C26_Step]_vars

\* C27: is_initialized is true only when the engine has been loaded: it is
\* false on an object no load was attempted on, and it is false with no
\* engine after a load that raised.
C27_InitializedOnlyWithEngine ==
    /\ is_initialized => (tts = "loaded" /\ loadCount > 0)
    /\ loadCount = 0 => ~is_initialized
    /\ (lastCall.op \in ConstructorOps /\ lastCall.cause = "engine") =>
          (~is_initialized /\ tts = "None")

\* the engine load has raised: the flag exists and is false
C27_Witness ==
    /\ lastCall.op \in ConstructorOps
    /\ lastCall.exc = "TTSInitializationError"
    /\ lastCall.cause = "engine"
    /\ "is_initialized" \in attrs
    /\ ~is_initialized
    /\ loadCount > 0

(***************************************************************************)
(* GET /get-audio: validate_audio_path                                     *)
(* A path is [abs, parts]: parts are its components, each a string of      *)
(* characters; "link" is a symbolic link in the output root to /etc.       *)
(***************************************************************************)
\* Path("output/xtts2/generated").resolve(), the working directory being /app
AllowedRoot == << <<"a","p","p">>, <<"o","u","t","p","u","t">>, <<"x","t","t","s","2">>,
                  <<"g","e","n","e","r","a","t","e","d">> >>

\* Path.resolve(): the components from the root of the file system, without
\* "." and "..", symbolic links followed
RECURSIVE ResolveFrom(_, _)
ResolveFrom(done, parts) ==
    IF parts = << >> THEN done
    ELSE LET c == Head(parts) IN
         IF c = <<".">> THEN ResolveFrom(done, Tail(parts))
         ELSE IF c = <<".", ".">>
         THEN ResolveFrom(IF done = << >> THEN done ELSE SubSeq(done, 1, Len(done) - 1),
                          Tail(parts))
         ELSE IF c = <<"l","i","n","k">> /\ done = AllowedRoot
         THEN ResolveFrom(<< <<"e","t","c">> >>, Tail(parts))
         ELSE ResolveFrom(Append(done, c), Tail(parts))
Resolve(p) == ResolveFrom(IF p.abs THEN << >> ELSE << <<"a","p","p">> >>, p.parts)

\* PurePath.is_relative_to: component by component
is_relative_to(path, root) ==
    Len(path) >= Len(root) /\ SubSeq(path, 1, Len(root)) = root

\* PurePath.suffix: the last component from its last dot on, when that dot
\* is neither its first nor its last character
Suffix(path) ==
    IF path = << >> THEN << >>
    ELSE LET name == path[Len(path)]
             dots == { i \in 1..Len(name) : name[i] = "." }
         IN IF dots = {} THEN << >>
            ELSE LET i == CHOOSE d \in dots : \A e \in dots : e <= d
                 IN IF i > 1 /\ i < Len(name) THEN SubSeq(name, i, Len(name)) ELSE << >>

\* (faulty variant) a check that looks for the file before it looks at the root
ValidateAudioPathExistsFirst(file_path, kind) ==
    LET absolute_path == Resolve(file_path) IN
    IF kind # "file"
    THEN HTTPException(404, "audio_missing")
    ELSE IF ~is_relative_to(absolute_path, AllowedRoot)
    THEN HTTPException(403, "audio_outside_root")
    ELSE IF Lower(Suffix(absolute_path)) # <<".","w","a","v">>
    THEN HTTPException(400, "audio_not_wav")
    ELSE Return(absolute_path)

\* the dependency validate_audio_path; kind says what the file system holds
\* at the resolved path ("file", "dir", "missing")
validate_audio_path(file_path, kind) ==
    LET absolute_path == Resolve(file_path) IN
    IF ~is_relative_to(absolute_path, AllowedRoot)
    THEN HTTPException(403, "audio_outside_root")
    ELSE IF kind # "file"
    THEN HTTPException(404, "audio_missing")
    ELSE IF Lower(Suffix(absolute_path)) # <<".","w","a","v">>
    THEN HTTPException(400, "audio_not_wav")
    ELSE Return(absolute_path)

\* GET /get-audio: the dependency, then FileResponse of the path it returned
get_audio(file_path, kind) ==
    LET audio_path == validate_audio_path(file_path, kind) IN
    IF Raised(audio_path)
    THEN Response(audio_path.status_code, audio_path.cause, NoneV, NoneV)
    ELSE Response(200, "", audio_path.val, NoneV)

\* --- SpecAudio: one request for a file, drawn at the start, is answered
AudioDirs ==
    { [abs |-> FALSE, parts |-> << <<"o","u","t","p","u","t">>, <<"x","t","t","s","2">>,
                                   <<"g","e","n","e","r","a","t","e","d">> >>],
      [abs |-> TRUE, parts |-> AllowedRoot],
      [abs |-> TRUE, parts |-> AllowedRoot \o << <<"e","n">>, <<".">> >>],
      [abs |-> TRUE, parts |-> AllowedRoot \o << <<".", ".">> >>],
      [abs |-> TRUE, parts |-> AllowedRoot \o << <<".", ".">>, <<".", ".">>, <<".", ".">>,
                                                 <<"e","t","c">> >>],
      [abs |-> TRUE, parts |-> AllowedRoot \o << <<".", ".">>,
                                                 <<"g","e","n","e","r","a","t","e","d">> >>],
      [abs |-> TRUE, parts |-> AllowedRoot \o << <<"l","i","n","k">> >>],
      [abs |-> TRUE, parts |-> << <<"a","p","p">>, <<"o","u","t","p","u","t">>,
                                  <<"x","t","t","s","2">>,
                                  <<"g","e","n","e","r","a","t","e","d","2">> >>],
      [abs |-> TRUE, parts |-> << <<"e","t","c">> >>],
      [abs |-> FALSE, parts |-> << >>] }
AudioNames ==
    { << >>, << <<"a",".","w","a","v">> >>, << <<"a",".","W","A","V">> >>,
      << <<"a",".","m","p","3">> >>, << <<".","w","a","v">> >>, << <<"w","a","v">> >>,
      << <<"a",".","w","a","v",".">> >> }
AudioProbes ==
    { [fn |-> "get_audio",
       arg |-> [file_path |-> [abs |-> d.abs, parts |-> d.parts \o n], kind |-> k],
       out |-> NoneV] : d \in AudioDirs, n \in AudioNames, k \in {"file", "dir", "missing"} }

ApplyAudio ==
    /\ probe.fn = "get_audio"
    /\ probe.out = NoneV
    /\ probe' = [probe EXCEPT !.out = Some(get_audio(probe.arg.file_path, probe.arg.kind))]
    /\ UNCHANGED <<_instance, allocs, attrs, settings, tts, is_initialized, loadCount,
                   poolCount, executor, jobs, disk, voiceFiles, pcDel, delPending,
                   cacheCleared, routerBound, shutdownEvent, lastCall, ctor>>

InitAudio == InitState /\ voiceFiles = Speakers /\ probe \in AudioProbes

NextAudio == ApplyAudio

SpecAudio == InitAudio /\ [][NextAudio]_vars

\* C28: GET /get-audio answers 403 for every path that resolves outside the
\* generated-output root, whatever is at that path; 404 for a path at or
\* under the root at which there is no file; 400 for a file under the root
\* whose suffix is not .wav in any case of letters; and serves the resolved
\* path, which is under the root, only when none of these applies.
C28_AudioPathGuarded ==
    (probe.fn = "get_audio" /\ probe.out # NoneV) =>
        LET a == probe.arg
            r == probe.out[1]
            target == Resolve(a.file_path)
            under == Len(target) >= 4 /\ \A i \in 1..4 : target[i] = AllowedRoot[i]
            wav == Lower(Suffix(target)) = <<".","w","a","v">>
        IN /\ r.status_code =
                 (IF ~under THEN 403 ELSE IF a.kind # "file" THEN 404
                  ELSE IF ~wav THEN 400 ELSE 200)
           /\ r.status_code = 200 <=> r.data # NoneV
           /\ r.data # NoneV =>
                 (r.data[1] = target /\ under /\ a.kind = "file" /\ wav
                  /\ \A i \in DOMAIN target : target[i] \notin {<<".", ".">>, <<"l","i","n","k">>})

\* a path that leaves the root by ".." and names an existing file outside
\* has been answered 403
C28_Witness ==
    /\ probe.fn = "get_audio"
    /\ probe.out # NoneV
    /\ probe.arg.kind = "file"
    /\ <<".", ".">> \in { probe.arg.file_path.parts[i] : i \in DOMAIN probe.arg.file_path.parts }
    /\ Resolve(probe.arg.file_path)
          = << <<"a","p","p">>, <<"e","t","c">>, <<"a",".","w","a","v">> >>
    /\ probe.out[1].status_code = 403

\* --- SpecFair: SpecQueue with workers that are scheduled (a free worker
\* --- takes the head of the queue, a worker that took a work item runs it)
\* --- and engine calls that return or raise
SpecFair ==
    /\ SpecQueue
    /\ WF_vars(\E w \in 1..DefaultMaxWorkers : WorkerTake(w))
    /\ WF_vars(\E w \in 1..DefaultMaxWorkers, k \in Tokens, m \in BOOLEAN :
                  WorkerRun(w, k, m))
    /\ WF_vars(\E w \in 1..DefaultMaxWorkers, o \in LifeOutcomes : WorkerFinish(w, o))

\* C29: with workers scheduled and engine calls that end, the Future of
\* every job that generate_speech or clone_voice accepted is eventually
\* resolved, with a path or with an exception, however many jobs are waiting.
C29_AcceptedJobsResolve ==
    \A id \in 1..(MaxJobs + 1) :
        (id \in DOMAIN jobs) ~>
            (/\ id \in DOMAIN jobs
             /\ jobs[id].state = "finished"
             /\ (jobs[id].result # NoneV \/ jobs[id].exception # ""))

\* two jobs submitted before either was resolved, on a pool of one worker,
\* are both resolved, one with a path and one with an exception
C29_Witness ==
    /\ Len(jobs) = 2
    /\ settings[1].TTS_MAX_WORKERS = 1
    /\ jobs[2].after = {}
    /\ \A id \in 1..2 : jobs[id].state = "finished"
    /\ jobs[1].exception # ""
    /\ jobs[2].result # NoneV

\* the fields of a job that executor.submit captured
Captured(j) == <<j.kind, j.text, j.language, j.speaker_wav>>

\* C30: a job keeps the kind, the trimmed text, the canonical language and
\* the reference audio it was accepted with, which are those of some call;
\* a step changes one job at most; a Future is resolved only for the job a
\* worker holds (or takes, when the output directory cannot be made), and the
\* path it then holds is the one built for that job: its kind, its language,
\* its token, whatever the order in which the workers finish.
C30_Step ==
    /\ \A id \in DOMAIN jobs : Captured(jobs'[id]) = Captured(jobs[id])
    /\ Cardinality({ id \in DOMAIN jobs : jobs'[id] # jobs[id] }) <= 1
    /\ \A id \in DOMAIN jobs' \ DOMAIN jobs :
          \E t \in CoreTexts, l \in CoreLanguages, w \in CoreWavs :
              /\ jobs'[id].text = Strip(t[1])
              /\ jobs'[id].language = "en"
              /\ jobs'[id].speaker_wav = w
              /\ jobs'[id].kind = (IF lastCall'.op = "clone_voice" THEN "cloned"
                                   ELSE "generated")
              /\ lastCall'.ret = id
    /\ \A id \in Resolved :
          /\ id \in Held \/ (executor.queue # << >> /\ Head(executor.queue) = id)
          /\ id \notin Held'
          /\ jobs'[id].result # NoneV =>
                /\ jobs'[id].result[1].kind = jobs[id].kind
                /\ jobs'[id].result[1].language = jobs[id].language
                /\ jobs'[id].result[1].token = jobs[id].token
                /\ disk'[jobs'[id].result[1]] >= MinAudioBytes
    /\ \A id \in DOMAIN jobs \ Resolved :
          <<jobs'[id].result, jobs'[id].exception>> = <<jobs[id].result, jobs[id].exception>>
C30_JobsImmutableAndCorrelated == [][C30_Step]_vars

\* the clone job submitted second has been resolved with its own path while
\* the job submitted first is still inside the engine
C30_Witness ==
    /\ Len(jobs) = 2
    /\ jobs[1].kind = "generated"
    /\ jobs[1].state = "running"
    /\ jobs[2].kind = "cloned"
    /\ jobs[2].state = "finished"
    /\ jobs[2].result # NoneV
    /\ jobs[2].result[1].kind = "cloned"

(***************************************************************************)
(* SpecText: one text and one TTS_MAX_TEXT_LENGTH, drawn at the start; the *)
(* text is given to _validate_text and to generate_speech on a service     *)
(* created with that limit                                                 *)
(***************************************************************************)
\* n times the letter a
Letters(n) == [i \in 1..n |-> "a"]

TextBodies ==
    { << >>, <<"a", " ", "a">>, <<"a", "\t", "b">> }
    \cup { Letters(n) : n \in {1, 2, 3, DefaultMaxTextLength - 1, DefaultMaxTextLength,
                               DefaultMaxTextLength + 1} }
TextInputs ==
    { NoneV } \cup
    { Some(pre \o b \o post) : pre \in {<< >>, <<" ">>, <<"\n", "\t">>},
                               b \in TextBodies,
                               post \in {<< >>, <<" ", "\n">>} }
TextLimits == {1, 2, 3, DefaultMaxTextLength}

TextProbes ==
    { [fn |-> "_validate_text", arg |-> [text |-> t, max_len |-> n], out |-> NoneV] :
        t \in TextInputs, n \in TextLimits }

ApplyText ==
    /\ probe.fn = "_validate_text"
    /\ probe.out = NoneV
    /\ probe' = [probe EXCEPT !.out = Some(_validate_text(probe.arg.text, probe.arg.max_len))]
    /\ UNCHANGED <<_instance, allocs, attrs, settings, tts, is_initialized, loadCount,
                   poolCount, executor, jobs, disk, voiceFiles, pcDel, delPending,
                   cacheCleared, routerBound, shutdownEvent, lastCall, ctor>>

InitText == InitState /\ voiceFiles = Speakers /\ probe \in TextProbes

NextText ==
    \/ ApplyText
    \/ create_xtts2_service([NoSettings EXCEPT !.TTS_MAX_TEXT_LENGTH = Some(probe.arg.max_len)],
                            [fail |-> "none", gpu |-> TRUE])
    \/ \E l \in CoreLanguages : generate_speech(probe.arg.text, l, NoneV)

SpecText == InitText /\ [][NextText]_vars

\* the text between its first and its last character that is no whitespace
Core(text) ==
    IF IsNone(text) THEN << >>
    ELSE LET s == text[1]
             ink == { i \in 1..Len(s) : s[i] \notin {" ", "\t", "\n"} }
         IN IF ink = {} THEN << >>
            ELSE SubSeq(s, CHOOSE i \in ink : \A k \in ink : i <= k,
                           CHOOSE j \in ink : \A k \in ink : k <= j)

\* C33: _validate_text returns the text without its surrounding whitespace
\* exactly when that is non-empty and has at most TTS_MAX_TEXT_LENGTH
\* characters (a length equal to the limit passes), and raises ValueError
\* for None, for an empty or all-whitespace text and for a longer one;
\* generate_speech on a service with that limit accepts the text in the
\* first case, with the trimmed text in the job, and rejects it otherwise.
C33_TextAcceptedIffWithinLimit ==
    probe.fn = "_validate_text" =>
        LET a == probe.arg
            ok == Core(a.text) # << >> /\ Len(Core(a.text)) <= a.max_len
        IN /\ probe.out # NoneV =>
                 IF ok
                 THEN probe.out[1].exc = "" /\ probe.out[1].val = Some(Core(a.text))
                 ELSE probe.out[1].exc = "ValueError" /\ probe.out[1].val = NoneV
           /\ \A id \in DOMAIN jobs : ok /\ jobs[id].text = Core(a.text)
           /\ ("settings" \in attrs /\ lastCall.op = "generate_speech") =>
                 /\ settings[1].TTS_MAX_TEXT_LENGTH = a.max_len
                 /\ ok => (lastCall.exc = "" \/ Len(jobs) = MaxJobs)
                 /\ ~ok => (lastCall.exc = "TTSServiceError"
                            /\ lastCall.cause \in {"text_empty", "text_too_long"})

\* a padded text of exactly 1000 letters has passed the default limit, and
\* a job holds it trimmed
C33_Witness ==
    /\ probe.fn = "_validate_text"
    /\ probe.out # NoneV
    /\ probe.arg.max_len = DefaultMaxTextLength
    /\ probe.arg.text # NoneV
    /\ Len(probe.arg.text[1]) > DefaultMaxTextLength
    /\ probe.out[1].val = Some(Letters(DefaultMaxTextLength))
    /\ jobs # << >>
    /\ jobs[1].text = Letters(DefaultMaxTextLength)

\* --- SpecFrame: every operation of the service after (and around) its
\* --- start: constructor calls with other settings, valid and invalid
\* --- submits, the workers, status queries
NextFrame ==
    \/ \E u \in UserSettings, e \in CoreEnvs : create_xtts2_service(u, e)
    \/ \E u \in UserSettings, e \in CoreEnvs : Construct(u, e)
    \/ \E t \in Texts, l \in Languages : generate_speech(t, l, NoneV)
    \/ \E l \in Languages, w \in {Some(RefOk), Some(RefSmall)} :
          clone_voice(Some(<<"a", " ">>), w, l)
    \/ \E w \in 1..DefaultMaxWorkers : WorkerStart(w, 1, TRUE)
    \/ \E w \in 1..DefaultMaxWorkers, o \in LifeOutcomes : WorkerFinish(w, o)
    \/ GetServiceInfo

SpecFrame == Init /\ [][NextFrame]_vars

\* C31: once __init__ has computed the settings, no step changes them, nor
\* removes or replaces the speaker map and the supported-language list:
\* neither a further constructor call with other settings, nor a submit that
\* is accepted or rejected, nor a worker, nor a status query.
C31_Step ==
    "settings" \in attrs =>
        /\ settings' = settings
        /\ {"settings", "speaker_voice_map", "supported_languages"} \subseteq attrs
        /\ {"settings", "speaker_voice_map", "supported_languages"} \subseteq attrs'
        /\ get_service_info(Self)'.max_workers = get_service_info(Self).max_workers
        /\ get_service_info(Self)'.max_text_length = get_service_info(Self).max_text_length
C31_SettingsFixedAfterStartup == [][C31_Step]_vars

\* on a service limited to one character whose engine load failed, a
\* constructor call with no settings has returned, a submit was rejected
\* and the status was read: the limit is still one, not the default
C31_Witness ==
    /\ "settings" \in attrs
    /\ settings[1].TTS_MAX_TEXT_LENGTH = 1
    /\ ~is_initialized
    /\ lastCall.op \in SubmitOps
    /\ lastCall.exc # ""
    /\ probe.fn = "get_service_info"
    /\ probe.out[1].val[1].max_text_length = 1

\* C32: POST /generate answers 400 to a speaker identifier that get_speakers
\* does not list, and enqueues no job for it; a request that reaches the pool
\* names a speaker of get_speakers that has an entry in speaker_voice_map and
\* whose language is one of the ten supported codes, and that language is
\* the language of the job handed to the engine.
C32_SpeakerResolved ==
    /\ { sp.name : sp \in get_speakers } \subseteq Speakers
    /\ { sp.language : sp \in get_speakers } \subseteq TenCodes
    /\ (probe.fn = "generate_tts" /\ probe.out # NoneV) =>
          LET a == probe.arg
              r == probe.out[1]
          IN /\ SpeakerInvalid(a.request.speaker) =>
                   /\ r.status_code = 400
                   /\ r.item = NoneV
                   /\ jobs = << >>
                   /\ ~ModelInvalid(a.model) => r.cause \in SpeakerCauses
             /\ r.item # NoneV =>
                   \E sp \in get_speakers :
                      /\ <<Strip(a.request.speaker), sp.name>> \in SpeakerSpelling
                      /\ sp.name \in Speakers
                      /\ sp.language \in TenCodes
                      /\ r.item[1].language = sp.language
                      /\ Len(jobs) = 1
                      /\ jobs[1].language = sp.language
                      /\ jobs[1].speaker_wav = Some(SpeakerVoice(sp.name, a.env))

\* the speaker " en_us_0 " has been accepted and its job ran in English
C32_Witness ==
    /\ probe.fn = "generate_tts"
    /\ probe.out # NoneV
    /\ probe.arg.request.speaker = <<" ">> \o <<"e","n","_","u","s","_","0">> \o <<" ">>
    /\ probe.out[1].status_code = 200
    /\ Len(jobs) = 1
    /\ jobs[1].language = "en"

\* C34 (as stated): when the shutdown event has run to its end, the
\* service's __del__ has run: the thread pool is shut down, with no job left
\* queued or running, and the device cache of a service that uses the GPU
\* has been emptied.
C34_ReleasedAtShutdown ==
    (shutdownEvent /\ "executor" \in attrs) =>
        /\ pcDel = "done"
        /\ executor.shutdown
        /\ ShutdownWaitDone
        /\ settings[1].USE_GPU => cacheCleared

\* settings["OUTPUT_DIR"] as _init_default_settings sets it ("./output/xtts2";
\* the application's custom_settings do not replace it), relative to the
\* working directory
OutputDir == << <<".">>, <<"o","u","t","p","u","t">>, <<"x","t","t","s","2">> >>

\* the path string a _sync function returns for job j: OUTPUT_DIR, then
\* "generated"/language/date or "cloned"/date, then
\* xtts2_gen_|xtts2_clone_{language}_{time}_{token}.wav
OutputFile(j) ==
    LET date == <<"2","0","2","6","1","1","0","4">>
        hex == [i \in 1..8 |-> IF i <= j.token THEN "f" ELSE "0"]
        stem == <<"_">> \o Chars(j.language) \o <<"_","0","8","0","0","0","0","_">> \o hex
                   \o <<".","w","a","v">>
    IN [abs |-> FALSE,
        parts |-> IF j.kind = "cloned"
                  THEN OutputDir \o << <<"c","l","o","n","e","d">>, date,
                                      <<"x","t","t","s","2","_","c","l","o","n","e">> \o stem >>
                  ELSE OutputDir \o << <<"g","e","n","e","r","a","t","e","d">>,
                                      Chars(j.language), date,
                                      <<"x","t","t","s","2","_","g","e","n">> \o stem >>]

\* C35 (as stated): the path in the Future of every job that ended well, plain
\* or cloned, resolves under the root GET /get-audio allows, and a request
\* for it is served, never answered 403.
C35_OutputsFetchable ==
    \A id \in Finished :
        jobs[id].result # NoneV =>
            /\ is_relative_to(Resolve(OutputFile(jobs[id])), AllowedRoot)
            /\ get_audio(OutputFile(jobs[id]), "file").status_code = 200

====
